---- MODULE Spec2Model ----
(***************************************************************************)
(* A model of qutip/solver/heom/bofin_solvers.py: the hierarchy of ADO     *)
(* labels (HierarchyADOs), the block gatherer (_GatherHEOMRHS), the        *)
(* construction of the HEOM generator (HEOMSolver._rhs, _calculate_rhs),   *)
(* the steady state solution (HEOMSolver.steady_state) and the conversion  *)
(* of states (HEOMSolver._prepare_state, _restore_state).                  *)
(*                                                                         *)
(* Conventions.  Python's None is the empty sequence << >> and a present   *)
(* value v is << v >>.  Complex numbers are pairs << re, im >> of integers *)
(* (Gaussian integers).  Matrices are functions on pairs of 0-based        *)
(* indices.  Labels are sequences of naturals; the exponent index k of the *)
(* code is 0-based and addresses entry k + 1 of the sequence.              *)
(***************************************************************************)
EXTENDS Integers, Sequences, FiniteSets, TLC

VARIABLES
    phase,        \* "new", "ready" or "error": the position in the life of the object
    sys_shape,    \* HEOMSolver._sys_shape, n (the system is n x n)
    L_sys,        \* HEOMSolver.L_sys(0).data, an n^2 x n^2 matrix
    L_td,         \* the time-dependent elements of HEOMSolver.L_sys (none: L_sys.isconstant)
    exponents,    \* HierarchyADOs.exponents
    max_depth,    \* HierarchyADOs.max_depth
    ados,         \* the remaining fields of HierarchyADOs: dims, vk, ck, ..., labels, _label_idx
    cache,        \* the superoperators pre-calculated by HEOMSolver.__init__
    gatherer,     \* the _GatherHEOMRHS object: _block_size, _n_blocks, _ops and the gathered matrix
    rhs,          \* the hierarchy part returned by _rhs() and the generator of _calculate_rhs()
    ss,           \* the locals and the return value of the last steady_state call
    call,         \* the last call of a query method: its name, arguments and outcome
    result        \* the HEOMResult object: store_ados, states, final_state, ado_states, final_ado_state

vars == << phase, sys_shape, L_sys, L_td, exponents, max_depth, ados, cache,
           gatherer, rhs, ss, call, result >>

(***************************************************************************)
(* Bounds of the model.                                                    *)
(***************************************************************************)
MaxDepth == 2        \* max_depth ranges over 0 .. MaxDepth
MaxExps == 2         \* the hierarchy is built from at most MaxExps exponents
MaxDim == 2          \* explicit dimension caps range over 1 .. MaxDim
MaxSysDim == 2       \* the system is n x n for n in 1 .. MaxSysDim
MaxOps == 3          \* add_op is called at most MaxOps times on a free gatherer
MaxBlocks == 2       \* a free gatherer has 1 .. MaxBlocks blocks per side
MaxFilterLen == 2    \* the pattern lists given to filter have at most MaxFilterLen entries
MaxTime == 2         \* the generator is evaluated at the times 0 .. MaxTime
MaxStored == 3       \* _store_state is called at most MaxStored times on a result

(***************************************************************************)
(* Python values.                                                          *)
(***************************************************************************)
None == << >>
Some(v) == << v >>
IsNone(o) == o = << >>
Val(o) == o[1]

Range(s) == { s[i] : i \in 1 .. Len(s) }
\* F(v), with v evaluated once: a local variable of the code
Let(v, F(_)) == CHOOSE r \in { F(x) : x \in { v } } : TRUE
Min2(a, b) == IF a <= b THEN a ELSE b

RECURSIVE SumSeq(_)
SumSeq(s) == IF s = << >> THEN 0 ELSE s[1] + SumSeq(Tail(s))

(***************************************************************************)
(* Complex numbers with integer parts.                                     *)
(***************************************************************************)
CZero == << 0, 0 >>
COne == << 1, 0 >>
CImag == << 0, 1 >>
CAdd(a, b) == << a[1] + b[1], a[2] + b[2] >>
CNeg(a) == << 0 - a[1], 0 - a[2] >>
CSub(a, b) == << a[1] - b[1], a[2] - b[2] >>
CMul(a, b) == << a[1] * b[1] - a[2] * b[2], a[1] * b[2] + a[2] * b[1] >>
CConj(a) == << a[1], 0 - a[2] >>
CInt(n) == << n, 0 >>
\* multiplication by the float 0.5; exact on the even values it is applied to
CHalf(a) == << a[1] \div 2, a[2] \div 2 >>
\* (-1) ** n
SignPow(n) == IF n % 2 = 0 THEN 1 ELSE 0 - 1

RECURSIVE CSumSeq(_)
CSumSeq(s) == IF s = << >> THEN CZero ELSE CAdd(s[1], CSumSeq(Tail(s)))

(***************************************************************************)
(* Matrices (qutip.core.data): square, indexed from 0.                     *)
(***************************************************************************)
Idx(m) == 0 .. (m - 1)
MatZero(m) == [ p \in Idx(m) \X Idx(m) |-> CZero ]
MatIdentity(m) == [ p \in Idx(m) \X Idx(m) |-> IF p[1] = p[2] THEN COne ELSE CZero ]
MatAdd(A, B) == [ p \in DOMAIN A |-> CAdd(A[p], B[p]) ]
MatSub(A, B) == [ p \in DOMAIN A |-> CSub(A[p], B[p]) ]
MatMul(A, z) == [ p \in DOMAIN A |-> CMul(A[p], z) ]
MatConj(A) == [ p \in DOMAIN A |-> CConj(A[p]) ]
MatTranspose(A) == [ p \in DOMAIN A |-> A[<< p[2], p[1] >>] ]
MatAdjoint(A) == [ p \in DOMAIN A |-> CConj(A[<< p[2], p[1] >>]) ]
\* kron(A, B) for an a x a matrix A and a b x b matrix B
MatKron(A, a, B, b) ==
    [ p \in Idx(a * b) \X Idx(a * b) |->
        CMul(A[<< p[1] \div b, p[2] \div b >>], B[<< p[1] % b, p[2] % b >>]) ]

(***************************************************************************)
(* Bath exponents (BathExponent of bofin_baths): records with the fields   *)
(* type, dim, Q, ck, vk, ck2, sigma_bar_k_offset and tag.  The members of  *)
(* the enumeration BathExponent.types are modelled by their names.         *)
(***************************************************************************)
TypeNames == { "R", "I", "RI", "+", "-" }
Fermionic(exp) == exp.fermionic

(***************************************************************************)
(* qutip.state_number_enumerate(dims, excitations): every tuple with       *)
(* 0 <= entry i < dims[i] and at most `excitations` excitations in total,  *)
(* in lexicographic order.                                                 *)
(***************************************************************************)
RECURSIVE state_number_enumerate(_, _)
RECURSIVE EnumFrom(_, _, _)
EnumFrom(dims, excitations, n) ==
    IF n >= Min2(dims[1], excitations + 1)
    THEN << >>
    ELSE Let(state_number_enumerate(Tail(dims), excitations - n),
             LAMBDA rest : [ i \in 1 .. Len(rest) |-> << n >> \o rest[i] ])
         \o EnumFrom(dims, excitations, n + 1)
state_number_enumerate(dims, excitations) ==
    IF dims = << >> THEN << << >> >> ELSE EnumFrom(dims, excitations, 0)

(***************************************************************************)
(* class HierarchyADOs                                                     *)
(***************************************************************************)
\* a plausible slip: an exponent without a cap gets max_depth
ADOsDimsDepth(exps_, depth) ==
    [ i \in 1 .. Len(exps_) |->
        IF IsNone(exps_[i].dim) \/ Val(exps_[i].dim) = 0
        THEN depth ELSE Val(exps_[i].dim) ]

\* self.dims = [exp.dim or (max_depth + 1) for exp in self.exponents]
ADOsDims(exps_, depth) ==
    [ i \in 1 .. Len(exps_) |->
        IF IsNone(exps_[i].dim) \/ Val(exps_[i].dim) = 0
        THEN depth + 1 ELSE Val(exps_[i].dim) ]

\* self._label_idx = {s: i for i, s in enumerate(self.labels)}
LabelIdx(labels) ==
    [ s \in Range(labels) |->
        (CHOOSE i \in 1 .. Len(labels) :
            labels[i] = s /\ \A j \in 1 .. Len(labels) : labels[j] = s => j <= i) - 1 ]

\* HierarchyADOs.__init__(exponents, max_depth)
HierarchyADOs(exps_, depth) ==
    Let(ADOsDims(exps_, depth), LAMBDA dims :
    Let(state_number_enumerate(dims, depth), LAMBDA labels :
        [ exponents |-> exps_,
          max_depth |-> depth,
          dims |-> dims,
          vk |-> [ i \in 1 .. Len(exps_) |-> exps_[i].vk ],
          ck |-> [ i \in 1 .. Len(exps_) |-> exps_[i].ck ],
          ck2 |-> [ i \in 1 .. Len(exps_) |-> exps_[i].ck2 ],
          sigma_bar_k_offset |-> [ i \in 1 .. Len(exps_) |-> exps_[i].sigma_bar_k_offset ],
          labels |-> labels,
          label_idx |-> LabelIdx(labels) ]))

\* the HierarchyADOs of an object that has not been constructed yet
NoADOs == HierarchyADOs(<< >>, 0)

\* idx(label): the outcome is the index, or the KeyError of the dictionary
idx(self, label) ==
    IF label \in DOMAIN self.label_idx
    THEN [ exc |-> "", ret |-> self.label_idx[label] ]
    ELSE [ exc |-> "KeyError", ret |-> 0 ]

\* a plausible slip: the cap is compared with the entry, not with the entry plus one
nextUpToCap(self, label, k) ==
    IF label[k + 1] >= self.dims[k + 1] THEN None
    ELSE IF SumSeq(label) >= self.max_depth THEN None
    ELSE Some([ label EXCEPT ![k + 1] = label[k + 1] + 1 ])

\* a plausible slip: the depth is compared with > instead of >=
nextPastDepth(self, label, k) ==
    IF label[k + 1] >= self.dims[k + 1] - 1 THEN None
    ELSE IF SumSeq(label) > self.max_depth THEN None
    ELSE Some([ label EXCEPT ![k + 1] = label[k + 1] + 1 ])

\* next(label, k): None or the label with one more excitation of exponent k
next(self, label, k) ==
    IF label[k + 1] >= self.dims[k + 1] - 1 THEN None
    ELSE IF SumSeq(label) >= self.max_depth THEN None
    ELSE Some([ label EXCEPT ![k + 1] = label[k + 1] + 1 ])

\* a plausible slip: the entry is compared with < instead of <=
prevBelowZero(self, label, k) ==
    IF label[k + 1] < 0 THEN None
    ELSE Some([ label EXCEPT ![k + 1] = label[k + 1] - 1 ])

\* prev(label, k): None or the label with one excitation of exponent k less
prev(self, label, k) ==
    IF label[k + 1] <= 0 THEN None
    ELSE Some([ label EXCEPT ![k + 1] = label[k + 1] - 1 ])

(***************************************************************************)
(* HierarchyADOs.filter(level, tags, dims, types).  level is None or an    *)
(* integer; tags, dims and types are None or a list whose items are None   *)
(* (a wildcard) or a value.  An item of types is a member of               *)
(* BathExponent.types, << "member", name >>, or a name, << "name", s >>.   *)
(***************************************************************************)
\* t if t is None or isinstance(t, BathExponent.types) else BathExponent.types[t]
FilterTypeOk(t) == IsNone(t) \/ Val(t)[1] = "member" \/ Val(t)[2] \in TypeNames
FilterType(t) == IF IsNone(t) THEN None ELSE Some(Val(t)[2])

\* getattr(exp, attr)
GetAttr(exp, attr) ==
    CASE attr = "tag" -> exp.tag
      [] attr = "type" -> Some(exp.type)
      [] attr = "dim" -> exp.dim

\* not any(getattr(exp, attr) != f for attr, f in level_filters)
FilterMatches(exp, filters, lvl) ==
    \A i \in 1 .. Len(filters) :
        IsNone(filters[i][2][lvl]) \/ GetAttr(exp, filters[i][1]) = filters[i][2][lvl]

\* the loop `for lvl in range(n)` over filtered_dims, from level lvl (1-based) on
RECURSIVE FilteredDims(_, _, _, _, _)
FilteredDims(self, filters, n, lvl, fdims) ==
    IF lvl > n THEN fdims
    ELSE FilteredDims(self, filters, n, lvl + 1,
            [ j \in 1 .. Len(self.exponents) |->
                IF FilterMatches(self.exponents[j], filters, lvl)
                THEN Min2(self.dims[j], fdims[j] + 1)
                ELSE fdims[j] ])

MaxLen(filters) ==
    IF filters = << >> THEN 0
    ELSE CHOOSE m \in { Len(filters[i][2]) : i \in 1 .. Len(filters) } :
            \A i \in 1 .. Len(filters) : Len(filters[i][2]) <= m

\* a plausible slip: every label up to the level
FilterLevelUpTo(self, level) ==
    SelectSeq(self.labels, LAMBDA label : SumSeq(label) <= level)

\* [label for label in self.labels if sum(label) == level]
FilterLevel(self, level) ==
    SelectSeq(self.labels, LAMBDA label : SumSeq(label) = level)

\* a plausible slip: the number of levels is not compared with max_depth
filter_any_depth(self, level, tags, dims, types) ==
    LET types2 == IF IsNone(types) THEN None
                  ELSE Some([ i \in 1 .. Len(Val(types)) |-> FilterType(Val(types)[i]) ])
        all == << << "tag", tags >>, << "type", types2 >>, << "dim", dims >> >>
        present == SelectSeq(all, LAMBDA f : ~IsNone(f[2]))
        filters == [ i \in 1 .. Len(present) |-> << present[i][1], Val(present[i][2]) >> ]
        n == MaxLen(filters)
        level_labels == FilterLevel(self, Val(level))
        fdims == FilteredDims(self, filters, n, 1, [ j \in 1 .. Len(self.exponents) |-> 1 ])
        found == SelectSeq(state_number_enumerate(fdims, n), LAMBDA label : SumSeq(label) = n)
    IN  IF ~IsNone(types) /\ \E i \in 1 .. Len(Val(types)) : ~FilterTypeOk(Val(types)[i])
        THEN [ exc |-> "KeyError", ret |-> << >> ]
        ELSE IF \E i \in 1 .. Len(filters) : Len(filters[i][2]) # n
        THEN [ exc |-> "ValueError", ret |-> << >> ]
        ELSE IF IsNone(level) /\ filters = << >>
        THEN [ exc |-> "", ret |-> self.labels ]
        ELSE IF ~IsNone(level) /\ filters = << >>
        THEN [ exc |-> "", ret |-> level_labels ]
        ELSE IF ~IsNone(level) /\ Val(level) # n
        THEN [ exc |-> "ValueError", ret |-> << >> ]
        ELSE [ exc |-> "", ret |-> found ]

\* filter(level, tags, dims, types): the exception raised or the list returned
filter(self, level, tags, dims, types) ==
    LET types2 == IF IsNone(types) THEN None
                  ELSE Some([ i \in 1 .. Len(Val(types)) |-> FilterType(Val(types)[i]) ])
        all == << << "tag", tags >>, << "type", types2 >>, << "dim", dims >> >>
        present == SelectSeq(all, LAMBDA f : ~IsNone(f[2]))
        filters == [ i \in 1 .. Len(present) |-> << present[i][1], Val(present[i][2]) >> ]
        n == MaxLen(filters)
        level_labels == FilterLevel(self, Val(level))
        fdims == FilteredDims(self, filters, n, 1, [ j \in 1 .. Len(self.exponents) |-> 1 ])
        found == SelectSeq(state_number_enumerate(fdims, n), LAMBDA label : SumSeq(label) = n)
    IN  IF ~IsNone(types) /\ \E i \in 1 .. Len(Val(types)) : ~FilterTypeOk(Val(types)[i])
        THEN [ exc |-> "KeyError", ret |-> << >> ]
        ELSE IF \E i \in 1 .. Len(filters) : Len(filters[i][2]) # n
        THEN [ exc |-> "ValueError", ret |-> << >> ]
        ELSE IF n > self.max_depth
        THEN [ exc |-> "ValueError", ret |-> << >> ]
        ELSE IF IsNone(level) /\ filters = << >>
        THEN [ exc |-> "", ret |-> self.labels ]
        ELSE IF ~IsNone(level) /\ filters = << >>
        THEN [ exc |-> "", ret |-> level_labels ]
        ELSE IF ~IsNone(level) /\ Val(level) # n
        THEN [ exc |-> "ValueError", ret |-> << >> ]
        ELSE [ exc |-> "", ret |-> found ]

(***************************************************************************)
(* class _GatherHEOMRHS.  The object is a record: f_idx is the index       *)
(* function, ops the list of (row, column, operator) triples, state one of *)
(* "open", "gathered" or the name of the exception that ended the object,  *)
(* out the gathered matrix, and added the history of the add_op calls.     *)
(***************************************************************************)
GatherHEOMRHS(f_idx, block, nhe) ==
    [ f_idx |-> f_idx, block_size |-> block, n_blocks |-> nhe, ops |-> << >>,
      state |-> "open", out |-> << >>, added |-> << >> ]

\* a plausible slip: the row and the column index are exchanged
add_op_swapped(self, row_he, col_he, op) ==
    IF row_he \in DOMAIN self.f_idx /\ col_he \in DOMAIN self.f_idx
    THEN [ self EXCEPT
            !.ops = Append(@, << self.f_idx[col_he], self.f_idx[row_he], op >>),
            !.added = Append(@, << row_he, col_he, op >>) ]
    ELSE [ self EXCEPT !.state = "KeyError" ]

\* add_op(row_he, col_he, op); f_idx raises KeyError for an unknown label
add_op(self, row_he, col_he, op) ==
    IF row_he \in DOMAIN self.f_idx /\ col_he \in DOMAIN self.f_idx
    THEN [ self EXCEPT
            !.ops = Append(@, << self.f_idx[row_he], self.f_idx[col_he], op >>),
            !.added = Append(@, << row_he, col_he, op >>) ]
    ELSE [ self EXCEPT !.state = "KeyError" ]

\* the order of tuples on their first two entries
KeyLess(a, b) == a[1] < b[1] \/ (a[1] = b[1] /\ a[2] < b[2])
KeyEqual(a, b) == a[1] = b[1] /\ a[2] = b[2]

\* self._ops.sort(): the triples in the order of their (row, column) keys; the
\* place of a triple is one more than the number of triples with a smaller key
SortOps(ops) ==
    [ i \in 1 .. Len(ops) |->
        ops[CHOOSE j \in 1 .. Len(ops) :
                Cardinality({ l \in 1 .. Len(ops) : KeyLess(ops[l], ops[j]) }) = i - 1] ]
\* two triples with the same key are ordered by their operators, which have no order
SortRaises(ops) ==
    \E i, j \in 1 .. Len(ops) : i # j /\ KeyEqual(ops[i], ops[j])

\* _csr.from_csr_blocks(block_rows, block_cols, block_ops, n_blocks, block_size):
\* the blocks are given in the order of their keys, no key twice; an entry is the
\* entry of the block that covers it, and zero where there is none
from_csr_blocks(block_rows, block_cols, block_ops, n_blocks, block_size) ==
    [ p \in Idx(n_blocks * block_size) \X Idx(n_blocks * block_size) |->
        LET at == { i \in 1 .. Len(block_ops) :
                        /\ block_rows[i] = p[1] \div block_size
                        /\ block_cols[i] = p[2] \div block_size }
        IN  IF at = { } THEN CZero
            ELSE block_ops[CHOOSE i \in at : TRUE][<< p[1] % block_size, p[2] % block_size >>] ]

\* gather()
gather(self) ==
    IF SortRaises(self.ops) THEN [ self EXCEPT !.state = "TypeError" ]
    ELSE Let(SortOps(self.ops), LAMBDA sorted :
            [ self EXCEPT
                !.ops = sorted,
                !.state = "gathered",
                !.out = from_csr_blocks([ i \in 1 .. Len(sorted) |-> sorted[i][1] ],
                                        [ i \in 1 .. Len(sorted) |-> sorted[i][2] ],
                                        [ i \in 1 .. Len(sorted) |-> sorted[i][3] ],
                                        self.n_blocks, self.block_size) ])

(***************************************************************************)
(* Superoperators (qutip.core.superoperator) on column-stacked n x n       *)
(* states: entry r, c of the state is entry c * n + r of the vector.       *)
(***************************************************************************)
\* spre(A): the state rho goes to A rho
spre(A, n) ==
    [ p \in Idx(n * n) \X Idx(n * n) |->
        IF p[1] \div n = p[2] \div n THEN A[<< p[1] % n, p[2] % n >>] ELSE CZero ]
\* spost(A): the state rho goes to rho A
spost(A, n) ==
    [ p \in Idx(n * n) \X Idx(n * n) |->
        IF p[1] % n = p[2] % n THEN A[<< p[2] \div n, p[1] \div n >>] ELSE CZero ]

(***************************************************************************)
(* class HEOMSolver.  Operators that can raise return a record with the    *)
(* name of the exception in exc ("" when there is none).                   *)
(***************************************************************************)
\* the superoperators pre-calculated by __init__
SuperopCache(exps_, n) ==
    LET K == 1 .. Len(exps_)
        spreQ == [ k \in K |-> spre(exps_[k].Q, n) ]
        spostQ == [ k \in K |-> spost(exps_[k].Q, n) ]
        spreQdag == [ k \in K |-> spre(MatAdjoint(exps_[k].Q), n) ]
        spostQdag == [ k \in K |-> spost(MatAdjoint(exps_[k].Q), n) ]
    IN  [ sId |-> MatIdentity(n * n),
          spreQ |-> spreQ,
          spostQ |-> spostQ,
          s_pre_minus_post_Q |-> [ k \in K |-> MatSub(spreQ[k], spostQ[k]) ],
          s_pre_plus_post_Q |-> [ k \in K |-> MatAdd(spreQ[k], spostQ[k]) ],
          spreQdag |-> spreQdag,
          spostQdag |-> spostQdag,
          s_pre_minus_post_Qdag |-> [ k \in K |-> MatSub(spreQdag[k], spostQdag[k]) ],
          s_pre_plus_post_Qdag |-> [ k \in K |-> MatAdd(spreQdag[k], spostQdag[k]) ] ]

Ok(op) == [ exc |-> "", op |-> op ]
Raise(exc) == [ exc |-> exc, op |-> << >> ]

\* sum(he_n[i] * vk[i] for i in range(len(vk)))
RECURSIVE VkSum(_, _, _)
VkSum(he_n, vk, i) ==
    IF i > Len(vk) THEN CZero
    ELSE CAdd(CMul(CInt(he_n[i]), vk[i]), VkSum(he_n, vk, i + 1))

\* a plausible slip: the sign of the decay is lost
grad_n_growing(self, he_n) ==
    MatMul(self.cache.sId, VkSum(he_n, self.ados.vk, 1))

\* _grad_n(he_n)
grad_n(self, he_n) ==
    MatMul(self.cache.sId, CNeg(VkSum(he_n, self.ados.vk, 1)))

\* -1j
MinusI == << 0, 0 - 1 >>

\* a plausible slip: the second term of an RI exponent lacks the excitation count
grad_prev_bosonic_unscaled(self, he_n, k) ==
    LET type == self.ados.exponents[k + 1].type
        n_k == CInt(he_n[k + 1])
    IN  IF type = "R"
        THEN Ok(MatMul(self.cache.s_pre_minus_post_Q[k + 1],
                       CMul(CMul(MinusI, n_k), self.ados.ck[k + 1])))
        ELSE IF type = "I"
        THEN Ok(MatMul(self.cache.s_pre_plus_post_Q[k + 1],
                       CMul(CMul(CMul(MinusI, n_k), CImag), self.ados.ck[k + 1])))
        ELSE IF type = "RI"
        THEN Ok(MatAdd(
                MatMul(self.cache.s_pre_minus_post_Q[k + 1],
                       CMul(CMul(n_k, MinusI), self.ados.ck[k + 1])),
                MatMul(self.cache.s_pre_plus_post_Q[k + 1],
                       Val(self.ados.ck2[k + 1]))))
        ELSE Raise("ValueError")

\* _grad_prev_bosonic(he_n, k)
grad_prev_bosonic(self, he_n, k) ==
    LET type == self.ados.exponents[k + 1].type
        n_k == CInt(he_n[k + 1])
    IN  IF type = "R"
        THEN Ok(MatMul(self.cache.s_pre_minus_post_Q[k + 1],
                       CMul(CMul(MinusI, n_k), self.ados.ck[k + 1])))
        ELSE IF type = "I"
        THEN Ok(MatMul(self.cache.s_pre_plus_post_Q[k + 1],
                       CMul(CMul(CMul(MinusI, n_k), CImag), self.ados.ck[k + 1])))
        ELSE IF type = "RI"
        THEN Ok(MatAdd(
                MatMul(self.cache.s_pre_minus_post_Q[k + 1],
                       CMul(CMul(n_k, MinusI), self.ados.ck[k + 1])),
                MatMul(self.cache.s_pre_plus_post_Q[k + 1],
                       CMul(n_k, Val(self.ados.ck2[k + 1])))))
        ELSE Raise("ValueError")

\* he_fermionic_n = [i * int(exp.fermionic) for i, exp in zip(he_n, exponents)]
HeFermionic(self, he_n) ==
    [ i \in 1 .. Len(he_n) |->
        IF Fermionic(self.ados.exponents[i]) THEN he_n[i] ELSE 0 ]

\* seq[i] of Python for a list: a negative index counts from the end
PyIndexOk(seq, i) == 0 - Len(seq) <= i /\ i < Len(seq)
PyIndex(seq, i) == IF i >= 0 THEN seq[i + 1] ELSE seq[Len(seq) + i + 1]

\* _grad_prev_fermionic(he_n, k)
grad_prev_fermionic(self, he_n, k) ==
    LET ck == self.ados.ck
        he_fermionic_n == HeFermionic(self, he_n)
        n_excite == SumSeq(he_fermionic_n)
        sign1 == SignPow(n_excite + 1)
        n_excite_before_m == SumSeq(SubSeq(he_fermionic_n, 1, k))
        sign2 == SignPow(n_excite_before_m)
        offset == self.ados.sigma_bar_k_offset[k + 1]
        sigma_bar_k == k + Val(offset)
        type == self.ados.exponents[k + 1].type
        c1 == CMul(CMul(MinusI, CInt(sign2)), ck[k + 1])
        c2 == CMul(CMul(CMul(MinusI, CInt(sign2)), CInt(sign1)),
                   CConj(PyIndex(ck, sigma_bar_k)))
    IN  IF IsNone(offset) THEN Raise("TypeError")
        ELSE IF type \notin { "+", "-" } THEN Raise("ValueError")
        ELSE IF ~PyIndexOk(ck, sigma_bar_k) THEN Raise("IndexError")
        ELSE IF type = "+"
        THEN Ok(MatSub(MatMul(self.cache.spreQdag[k + 1], c1),
                       MatMul(self.cache.spostQdag[k + 1], c2)))
        ELSE Ok(MatSub(MatMul(self.cache.spreQ[k + 1], c1),
                       MatMul(self.cache.spostQ[k + 1], c2)))

\* _grad_prev(he_n, k)
grad_prev(self, he_n, k) ==
    IF Fermionic(self.ados.exponents[k + 1])
    THEN grad_prev_fermionic(self, he_n, k)
    ELSE grad_prev_bosonic(self, he_n, k)

\* _grad_next_bosonic(he_n, k)
grad_next_bosonic(self, he_n, k) ==
    Ok(MatMul(self.cache.s_pre_minus_post_Q[k + 1], MinusI))

\* a plausible slip: the excitations of every exponent are counted
grad_next_fermionic_all(self, he_n, k) ==
    LET n_excite == SumSeq(he_n)
        sign1 == SignPow(n_excite + 1)
        n_excite_before_m == SumSeq(SubSeq(he_n, 1, k))
        sign2 == SignPow(n_excite_before_m)
        type == self.ados.exponents[k + 1].type
        c == CMul(MinusI, CInt(sign2))
    IN  IF type = "+"
        THEN IF sign1 = 0 - 1
             THEN Ok(MatMul(self.cache.s_pre_minus_post_Q[k + 1], c))
             ELSE Ok(MatMul(self.cache.s_pre_plus_post_Q[k + 1], c))
        ELSE IF type = "-"
        THEN IF sign1 = 0 - 1
             THEN Ok(MatMul(self.cache.s_pre_minus_post_Qdag[k + 1], c))
             ELSE Ok(MatMul(self.cache.s_pre_plus_post_Qdag[k + 1], c))
        ELSE Raise("ValueError")

\* _grad_next_fermionic(he_n, k)
grad_next_fermionic(self, he_n, k) ==
    LET he_fermionic_n == HeFermionic(self, he_n)
        n_excite == SumSeq(he_fermionic_n)
        sign1 == SignPow(n_excite + 1)
        n_excite_before_m == SumSeq(SubSeq(he_fermionic_n, 1, k))
        sign2 == SignPow(n_excite_before_m)
        type == self.ados.exponents[k + 1].type
        c == CMul(MinusI, CInt(sign2))
    IN  IF type = "+"
        THEN IF sign1 = 0 - 1
             THEN Ok(MatMul(self.cache.s_pre_minus_post_Q[k + 1], c))
             ELSE Ok(MatMul(self.cache.s_pre_plus_post_Q[k + 1], c))
        ELSE IF type = "-"
        THEN IF sign1 = 0 - 1
             THEN Ok(MatMul(self.cache.s_pre_minus_post_Qdag[k + 1], c))
             ELSE Ok(MatMul(self.cache.s_pre_plus_post_Qdag[k + 1], c))
        ELSE Raise("ValueError")

\* _grad_next(he_n, k)
grad_next(self, he_n, k) ==
    IF Fermionic(self.ados.exponents[k + 1])
    THEN grad_next_fermionic(self, he_n, k)
    ELSE grad_next_bosonic(self, he_n, k)

\* a plausible slip: the descend block is added under the key of the diagonal block
RhsExponentOnDiagonal(self, ops, he_n, k) ==
    LET next_he == next(self.ados, he_n, k)
        prev_he == prev(self.ados, he_n, k)
        AddNext(o) ==
            IF IsNone(next_he) THEN o
            ELSE Let(grad_next(self, he_n, k), LAMBDA op :
                    IF op.exc # "" THEN [ o EXCEPT !.state = op.exc ]
                    ELSE add_op(o, he_n, Val(next_he), op.op))
        AddPrev(o) ==
            IF IsNone(prev_he) \/ o.state # "open" THEN o
            ELSE Let(grad_prev(self, he_n, k), LAMBDA op :
                    IF op.exc # "" THEN [ o EXCEPT !.state = op.exc ]
                    ELSE add_op(o, he_n, he_n, op.op))
    IN  IF ops.state # "open" THEN ops
        ELSE Let(AddNext(ops), AddPrev)

\* one pass of the body of `for k in range(len(self.ados.dims))` of _rhs: the
\* gatherer after the add_op calls for the label he_n and the exponent k
RhsExponent(self, ops, he_n, k) ==
    LET next_he == next(self.ados, he_n, k)
        prev_he == prev(self.ados, he_n, k)
        AddNext(o) ==
            IF IsNone(next_he) THEN o
            ELSE Let(grad_next(self, he_n, k), LAMBDA op :
                    IF op.exc # "" THEN [ o EXCEPT !.state = op.exc ]
                    ELSE add_op(o, he_n, Val(next_he), op.op))
        AddPrev(o) ==
            IF IsNone(prev_he) \/ o.state # "open" THEN o
            ELSE Let(grad_prev(self, he_n, k), LAMBDA op :
                    IF op.exc # "" THEN [ o EXCEPT !.state = op.exc ]
                    ELSE add_op(o, he_n, Val(prev_he), op.op))
    IN  IF ops.state # "open" THEN ops
        ELSE Let(AddNext(ops), AddPrev)

\* the loop `for k in range(len(self.ados.dims))`: the gatherer after the passes
\* for the exponents 0 .. k - 1
RECURSIVE RhsExponents(_, _, _, _)
RhsExponents(self, ops, he_n, k) ==
    IF k = 0 THEN ops
    ELSE Let(RhsExponents(self, ops, he_n, k - 1),
             LAMBDA o : RhsExponent(self, o, he_n, k - 1))

\* one pass of the loop `for he_n in self.ados.labels` of _rhs
RhsLabel(self, ops, he_n) ==
    IF ops.state # "open" THEN ops
    ELSE Let(add_op(ops, he_n, he_n, grad_n(self, he_n)),
             LAMBDA o : RhsExponents(self, o, he_n, Len(self.ados.dims)))

\* the loop `for he_n in self.ados.labels`: the gatherer after the first i labels
RECURSIVE RhsLabels(_, _, _)
RhsLabels(self, ops, i) ==
    IF i = 0 THEN ops
    ELSE Let(RhsLabels(self, ops, i - 1),
             LAMBDA o : RhsLabel(self, o, self.ados.labels[i]))

\* _rhs(): the gatherer after the loop and gather(); its out is the value returned
rhs_(self) ==
    Let(RhsLabels(self, GatherHEOMRHS(self.ados.label_idx, self.sup_shape, self.n_ados),
                  Len(self.ados.labels)),
        LAMBDA filled : IF filled.state = "open" THEN gather(filled) ELSE filled)

\* a plausible slip: the system generator reaches the first block only
KronFirstBlock(n_ados, L, sup_shape) ==
    MatKron([ p \in Idx(n_ados) \X Idx(n_ados) |->
                IF p = << 0, 0 >> THEN COne ELSE CZero ], n_ados, L, sup_shape)

\* _data.kron(h_identity, self.L_sys(0).to("csr").data)
KronIdentity(n_ados, L, sup_shape) == MatKron(MatIdentity(n_ados), n_ados, L, sup_shape)

\* QobjEvo: a constant matrix and a list of elements [op, coeff], coeff a
\* function of the time; the value at the time t is the constant plus the sum
\* of coeff[t] * op
RECURSIVE QobjEvoAt(_, _, _)
QobjEvoAt(const, td, t) ==
    IF td = << >> THEN const
    ELSE MatAdd(QobjEvoAt(const, Tail(td), t), MatMul(td[1].op, CInt(td[1].coeff[t])))

\* L_sys.isconstant
IsConstant(self) == self.L_td = << >>

\* L_sys.linear_map(_kron): the list of elements with _kron applied to each operator
KronMap(self, td) ==
    [ i \in 1 .. Len(td) |->
        [ op |-> KronIdentity(self.n_ados, td[i].op, self.sup_shape),
          coeff |-> td[i].coeff ] ]

\* a plausible slip: the time-dependent generator is frozen at the time 0
calculate_rhs_frozen(self) ==
    Let(rhs_(self), LAMBDA ops :
        IF ops.state # "gathered"
        THEN [ state |-> ops.state, ops |-> ops ]
        ELSE [ state |-> "ok", ops |-> ops, hier |-> ops.out,
               rhs |-> MatAdd(ops.out,
                              KronIdentity(self.n_ados, QobjEvoAt(self.L_sys, self.L_td, 0),
                                           self.sup_shape)),
               td |-> << >> ])

\* _calculate_rhs(): the gatherer of _rhs, the matrix it returned and the
\* generator, a QobjEvo with the constant part rhs and the elements td
calculate_rhs(self) ==
    Let(rhs_(self), LAMBDA ops :
        IF ops.state # "gathered"
        THEN [ state |-> ops.state, ops |-> ops ]
        ELSE IF IsConstant(self)
        THEN [ state |-> "ok", ops |-> ops, hier |-> ops.out,
               rhs |-> MatAdd(ops.out,
                              KronIdentity(self.n_ados, QobjEvoAt(self.L_sys, self.L_td, 0),
                                           self.sup_shape)),
               td |-> << >> ]
        ELSE [ state |-> "ok", ops |-> ops, hier |-> ops.out,
               rhs |-> MatAdd(ops.out,
                              KronIdentity(self.n_ados, self.L_sys, self.sup_shape)),
               td |-> KronMap(self, self.L_td) ])

\* the dimension of a square matrix
QDim(Q) == CHOOSE n \in 0 .. (MaxSysDim + 2) : DOMAIN Q = Idx(n) \X Idx(n)

\* _combine_bath_exponents(bath), for the concatenated exponents of the baths
combine_bath_exponents(exps_) ==
    IF \A i \in 1 .. Len(exps_) : QDim(exps_[i].Q) = QDim(exps_[1].Q)
    THEN [ exc |-> "", exponents |-> exps_ ]
    ELSE [ exc |-> "ValueError", exponents |-> << >> ]

\* HEOMSolver.__init__(H, bath, max_depth) up to the call of _calculate_rhs
HEOMSolver(L, td, n, exps_, depth) ==
    Let(HierarchyADOs(exps_, depth), LAMBDA a :
        [ L_sys |-> L, L_td |-> td, sys_shape |-> n, sup_shape |-> n * n, ados |-> a,
          n_ados |-> Len(a.labels), n_exponents |-> Len(a.exponents),
          cache |-> SuperopCache(a.exponents, n) ])

(***************************************************************************)
(* HEOMSolver.steady_state and HierarchyADOsState.  Vectors are functions  *)
(* on 0 .. N - 1; the state of all ADOs is a function on triples           *)
(* << ADO index, row, column >>.                                           *)
(***************************************************************************)
\* b_mat = np.zeros(n ** 2 * n_ados); b_mat[0] = 1.0
SteadyB(self) ==
    [ i \in Idx(self.sys_shape * self.sys_shape * self.n_ados) |->
        IF i = 0 THEN COne ELSE CZero ]

\* a plausible slip: the ones are added to a first row that was not set to zero
SteadyLKeepRow(self, rhs_mat) ==
    LET n == self.sys_shape
    IN  [ p \in DOMAIN rhs_mat |->
            IF p[1] # 0 THEN rhs_mat[p]
            ELSE IF \E num \in Idx(n) : p[2] = num * (n + 1)
            THEN CAdd(rhs_mat[p], COne) ELSE rhs_mat[p] ]

\* a plausible slip: the ones of the first row are n apart, not n + 1
SteadyLStride(self, rhs_mat) ==
    LET n == self.sys_shape
    IN  [ p \in DOMAIN rhs_mat |->
            IF p[1] # 0 THEN rhs_mat[p]
            ELSE IF \E num \in Idx(n) : p[2] = num * n THEN COne ELSE CZero ]

\* L = rhs(0) with row 0 set to zero, plus ones at (0, num * (n + 1)) for num < n
SteadyL(self, rhs_mat) ==
    LET n == self.sys_shape
    IN  [ p \in DOMAIN rhs_mat |->
            IF p[1] # 0 THEN rhs_mat[p]
            ELSE IF \E num \in Idx(n) : p[2] = num * (n + 1) THEN COne ELSE CZero ]

\* a plausible slip: without .copy(), L is the data of the generator itself
SteadyInPlace(rhs_mat, L) == L

\* L = self.rhs(0).data.copy(): L is a copy, so the generator of the solver
\* keeps the data rhs_mat when the row 0 of L is overwritten
SteadyCopy(rhs_mat, L) == rhs_mat

\* solution[:n ** 2].reshape((n, n)): row r, column c is entry r * n + c
ReshapeSquare(solution, n) ==
    [ p \in Idx(n) \X Idx(n) |-> solution[p[1] * n + p[2]] ]

\* _data.mul(_data.add(data, data.conj()), 0.5)
SteadyData(data) ==
    [ p \in DOMAIN data |-> CHalf(CAdd(data[p], MatConj(data)[p])) ]

\* solution.reshape((n_ados, n, n))
ReshapeADOs(solution, n_ados, n) ==
    [ t \in Idx(n_ados) \X Idx(n) \X Idx(n) |-> solution[t[1] * n * n + t[2] * n + t[3]] ]

\* HierarchyADOsState(rho, ados, ado_state)
HierarchyADOsState(rho, ados_, ado_state) ==
    [ rho |-> rho, ados |-> ados_, ado_state |-> ado_state ]

\* HierarchyADOsState.extract(idx): the transpose of ado_state[idx, :]
extract(self, i) ==
    [ p \in DOMAIN self.rho |-> self.ado_state[<< i, p[2], p[1] >>] ]

\* the linear solver called by steady_state(use_mkl): mkl_spsolve if it was
\* imported (mkl) and is asked for, spsolve of scipy otherwise
SteadyBackend(use_mkl, mkl) == IF mkl /\ use_mkl THEN "mkl" ELSE "scipy"

\* a plausible slip: when mkl_spsolve fails, spsolve is tried as well
steady_state_fallback(self, rhs_mat, use_mkl, mkl, solved, solution) ==
    IF ~IsConstant(self)
    THEN [ state |-> "ValueError", use_mkl |-> use_mkl, mkl |-> mkl, calls |-> << >> ]
    ELSE [ state |-> "SolverError", use_mkl |-> use_mkl, mkl |-> mkl,
           b_mat |-> SteadyB(self), L |-> SteadyL(self, rhs_mat),
           calls |-> IF SteadyBackend(use_mkl, mkl) = "mkl"
                     THEN << "mkl", "scipy" >> ELSE << "scipy" >> ]

\* steady_state(use_mkl) of a solver with the generator rhs_mat = self.rhs(0);
\* mkl tells whether mkl_spsolve was imported, solved whether the linear solver
\* returns (the vector solution) or raises; calls lists the linear solvers called
steady_state(self, rhs_mat, use_mkl, mkl, solved, solution) ==
    LET n == self.sys_shape
    IN  IF ~IsConstant(self)
        THEN [ state |-> "ValueError", use_mkl |-> use_mkl, mkl |-> mkl, calls |-> << >> ]
        ELSE IF ~solved
        THEN [ state |-> "SolverError", use_mkl |-> use_mkl, mkl |-> mkl,
               b_mat |-> SteadyB(self), L |-> SteadyL(self, rhs_mat),
               calls |-> << SteadyBackend(use_mkl, mkl) >> ]
        ELSE Let(SteadyData(ReshapeSquare(solution, n)), LAMBDA data :
        [ state |-> "done", use_mkl |-> use_mkl, mkl |-> mkl,
          b_mat |-> SteadyB(self),
          L |-> SteadyL(self, rhs_mat),
          calls |-> << SteadyBackend(use_mkl, mkl) >>,
          solution |-> solution,
          steady_state |-> data,
          steady_ados |-> HierarchyADOsState(data, self.ados,
                                             ReshapeADOs(solution, self.n_ados, n)) ])

(***************************************************************************)
(* HEOMResult.  The attributes of the result object are the fields of a    *)
(* record; an attribute that was never assigned is not a field.            *)
(***************************************************************************)
\* Result._post_init(): the list of states is empty and there is no final state
ResultPostInit == [ states |-> << >>, final_state |-> None ]

\* HEOMResult._post_init(), with options["store_ados"]
post_init(store_ados) ==
    IF store_ados
    THEN [ store_ados |-> TRUE, states |-> ResultPostInit.states,
           final_state |-> ResultPostInit.final_state,
           final_ado_state |-> None, ado_states |-> << >> ]
    ELSE [ store_ados |-> FALSE, states |-> ResultPostInit.states,
           final_state |-> ResultPostInit.final_state ]

\* a plausible slip: the new state is put in front of the stored ones
store_state_front(self, t, ado_state) ==
    IF self.store_ados
    THEN [ self EXCEPT !.states = << ado_state.rho >> \o @,
                       !.ado_states = << ado_state >> \o @ ]
    ELSE [ self EXCEPT !.states = << ado_state.rho >> \o @ ]

\* HEOMResult._store_state(t, ado_state)
store_state(self, t, ado_state) ==
    IF self.store_ados
    THEN [ self EXCEPT !.states = Append(@, ado_state.rho),
                       !.ado_states = Append(@, ado_state) ]
    ELSE [ self EXCEPT !.states = Append(@, ado_state.rho) ]

\* HEOMResult._store_final_state(t, ado_state)
store_final_state(self, t, ado_state) ==
    IF self.store_ados
    THEN [ self EXCEPT !.final_state = Some(ado_state.rho),
                       !.final_ado_state = Some(ado_state) ]
    ELSE [ self EXCEPT !.final_state = Some(ado_state.rho) ]

(***************************************************************************)
(* HEOMSolver._prepare_state and _restore_state.  An initial state is a    *)
(* record: kind is "Qobj" (with dims, << rows, columns >>, and the matrix  *)
(* data), "HierarchyADOsState" or "array" (with shape and data, a function *)
(* on the index tuples of that shape) or "other" (a value without shape).  *)
(***************************************************************************)
\* self._sys_dims, the dims of an operator of the system
SysDims(self) == << self.sys_shape, self.sys_shape >>

\* hierarchy_shape = (self._n_ados, n, n)
HierarchyShape(self) == << self.n_ados, self.sys_shape, self.sys_shape >>

\* a plausible slip: reshape in the column-major order, entry (i, r, c) becomes
\* entry i + r * n_ados + c * n_ados * n
FlattenADOsF(arr, n_ados, n) ==
    [ j \in Idx(n * n * n_ados) |->
        arr[<< j % n_ados, (j \div n_ados) % n, j \div (n_ados * n) >>] ]

\* rho0_he.reshape(n ** 2 * self._n_ados): entry (i, r, c) becomes entry
\* i * n * n + r * n + c
FlattenADOs(arr, n_ados, n) ==
    [ j \in Idx(n * n * n_ados) |-> arr[<< j \div (n * n), (j % (n * n)) \div n, j % n >>] ]

\* a plausible slip: rho0.full().ravel() in the default (row-major) order
RavelC(rho, n) == [ j \in Idx(n * n) |-> rho[<< j \div n, j % n >>] ]

\* rho0.full().ravel('F'): entry (r, c) becomes entry c * n + r
RavelF(rho, n) == [ j \in Idx(n * n) |-> rho[<< j % n, j \div n >>] ]

\* a plausible slip: the shape of the initial ADOs is not compared
prepare_state_unchecked(self, state) ==
    LET n == self.sys_shape
    IN  IF state.kind = "Qobj"
        THEN IF state.dims # SysDims(self) THEN [ exc |-> "ValueError" ]
             ELSE [ exc |-> "",
                    vec |-> [ j \in Idx(n * n * self.n_ados) |->
                                IF j < n * n THEN RavelF(state.data, n)[j] ELSE CZero ] ]
        ELSE IF state.kind \notin { "HierarchyADOsState", "array" }
        THEN [ exc |-> "TypeError" ]
        ELSE [ exc |-> "",
               vec |-> [ j \in Idx(Cardinality(DOMAIN state.data)) |-> CZero ] ]

\* _prepare_state(state): the exception raised or the state vector returned
prepare_state(self, state) ==
    LET n == self.sys_shape
    IN  IF state.kind = "Qobj"
        THEN IF state.dims # SysDims(self) THEN [ exc |-> "ValueError" ]
             ELSE [ exc |-> "",
                    vec |-> [ j \in Idx(n * n * self.n_ados) |->
                                IF j < n * n THEN RavelF(state.data, n)[j] ELSE CZero ] ]
        ELSE IF state.kind \notin { "HierarchyADOsState", "array" }
        THEN [ exc |-> "TypeError" ]
        ELSE IF state.shape # HierarchyShape(self) THEN [ exc |-> "ValueError" ]
        ELSE [ exc |-> "", vec |-> FlattenADOs(state.data, self.n_ados, n) ]

\* state.to_array()[:n ** 2].reshape(rho_shape, order='F'): entry c * n + r
\* becomes entry (r, c)
ReshapeF(vec, n) == [ p \in Idx(n) \X Idx(n) |-> vec[p[2] * n + p[1]] ]

\* _restore_state(state)
restore_state(self, vec) ==
    HierarchyADOsState(ReshapeF(vec, self.sys_shape), self.ados,
                       ReshapeADOs(vec, self.n_ados, self.sys_shape))

(***************************************************************************)
(* The inputs of the model: coupling operators, exponents and hierarchies. *)
(***************************************************************************)
\* a Hermitian coupling operator: ones on the anti-diagonal (sigma_x for n = 2)
QAnti(n) == [ p \in Idx(n) \X Idx(n) |-> IF p[1] + p[2] = n - 1 THEN COne ELSE CZero ]
\* a diagonal coupling operator
QDiag(n) == [ p \in Idx(n) \X Idx(n) |-> IF p[1] = p[2] THEN CInt(p[1]) ELSE CZero ]
\* a coupling operator that is not Hermitian: upper triangular
QUpper(n) == [ p \in Idx(n) \X Idx(n) |->
                IF p[2] >= p[1] THEN << 1, p[2] - p[1] >> ELSE CZero ]

ExpR(n) == [ type |-> "R", fermionic |-> FALSE, dim |-> None, Q |-> QDiag(n), ck |-> << 2, 0 >>,
             vk |-> << 1, 0 >>, ck2 |-> None, sigma_bar_k_offset |-> None, tag |-> None ]
ExpI(n, d) == [ type |-> "I", fermionic |-> FALSE, dim |-> Some(d), Q |-> QUpper(n), ck |-> << 1, 1 >>,
                vk |-> << 2, 1 >>, ck2 |-> None, sigma_bar_k_offset |-> None,
                tag |-> Some("a") ]
ExpRI(n) == [ type |-> "RI", fermionic |-> FALSE, dim |-> None, Q |-> QAnti(n), ck |-> << 0, 2 >>,
              vk |-> << 0, 1 >>, ck2 |-> Some(<< 3, 0 >>), sigma_bar_k_offset |-> None,
              tag |-> Some("a") ]
ExpPlus(n) == [ type |-> "+", fermionic |-> TRUE, dim |-> Some(2), Q |-> QUpper(n), ck |-> << 1, 2 >>,
                vk |-> << 1, 0 - 1 >>, ck2 |-> None, sigma_bar_k_offset |-> Some(1),
                tag |-> Some("b") ]
ExpMinus(n) == [ type |-> "-", fermionic |-> TRUE, dim |-> Some(2), Q |-> QUpper(n), ck |-> << 2, 0 - 1 >>,
                 vk |-> << 3, 0 >>, ck2 |-> None, sigma_bar_k_offset |-> Some(0 - 1),
                 tag |-> Some("b") ]

ExpPool(n) == { ExpR(n), ExpRI(n), ExpPlus(n), ExpMinus(n) }
                 \cup { ExpI(n, d) : d \in 1 .. MaxDim }

\* exponents whose type is not one their statistics supports: a bosonic one
\* (with the dimension cap dim) and a fermionic one
ExpOdd(n, dim) == [ type |-> "X", fermionic |-> FALSE, dim |-> dim, Q |-> QDiag(n),
                    ck |-> << 1, 0 >>, vk |-> << 1, 1 >>, ck2 |-> None,
                    sigma_bar_k_offset |-> None, tag |-> None ]
ExpOddF(n) == [ type |-> "X", fermionic |-> TRUE, dim |-> Some(2), Q |-> QUpper(n),
                ck |-> << 1, 1 >>, vk |-> << 2, 0 >>, ck2 |-> None,
                sigma_bar_k_offset |-> Some(0), tag |-> None ]
OddPool(n) == { ExpOdd(n, None), ExpOdd(n, Some(1)), ExpOddF(n) }

\* lists of exponents whose coupling operators differ in their dimensions
MixedDimLists(n) == { << ExpR(n), ExpR(n + 1) >>, << ExpMinus(n + 1), ExpRI(n) >> }

\* the lists of at most MaxExps exponents given to a solver
SolverLists(n) ==
    UNION { [ 1 .. len -> ExpPool(n) \cup OddPool(n) ] : len \in 0 .. MaxExps }
        \cup MixedDimLists(n)

\* the lists of at most MaxExps exponents
ExpLists(n) == UNION { [ 1 .. len -> ExpPool(n) ] : len \in 0 .. MaxExps }

\* every tuple of the given length with entries in 0 .. MaxDepth + 1
Tuples(len) == [ 1 .. len -> 0 .. (MaxDepth + 1) ]

\* the pattern lists of filter: None, or a list of at most MaxFilterLen items
\* each of which is None or the value v
Patterns(v) == { None } \cup
    { Some(l) : l \in UNION { [ 1 .. len -> { None, Some(v) } ] : len \in 0 .. MaxFilterLen } }

NoCall == [ op |-> "none" ]
NoGatherer == [ state |-> "none" ]

\* the block operators given to a free gatherer
BlockA(m) == [ p \in Idx(m) \X Idx(m) |-> << p[1] + 1, p[2] >> ]
BlockB(m) == [ p \in Idx(m) \X Idx(m) |-> << 0 - p[2], p[1] + 2 >> ]
BlockPool(m) == { BlockA(m), BlockB(m), MatIdentity(m) }
NoRhs == [ state |-> "none" ]
NoSS == [ state |-> "none" ]
NoCache == [ state |-> "none" ]
NoResult == [ state |-> "none" ]

(***************************************************************************)
(* The hierarchy on its own: HierarchyADOs is constructed from a list of   *)
(* exponents and a depth, and is then queried.                             *)
(***************************************************************************)
InitADOs ==
    /\ phase = "new"
    /\ sys_shape = 1
    /\ L_sys = MatZero(1)
    /\ L_td = << >>
    /\ exponents \in ExpLists(1)
    /\ max_depth \in 0 .. MaxDepth
    /\ ados = NoADOs
    /\ cache = NoCache
    /\ gatherer = NoGatherer
    /\ rhs = NoRhs
    /\ ss = NoSS
    /\ call = NoCall
    /\ result = NoResult

NewADOs ==
    /\ phase = "new"
    /\ phase' = "ready"
    /\ ados' = HierarchyADOs(exponents, max_depth)
    /\ UNCHANGED << result, sys_shape, L_sys, L_td, exponents, max_depth, cache, gatherer, rhs, ss, call >>

CallIdx ==
    /\ phase = "ready"
    /\ call = NoCall
    /\ \E label \in Tuples(Len(ados.exponents)) :
        call' = [ op |-> "idx", label |-> label, out |-> idx(ados, label) ]
    /\ UNCHANGED << result, phase, sys_shape, L_sys, L_td, exponents, max_depth, ados, cache,
                    gatherer, rhs, ss >>

CallNext ==
    /\ phase = "ready"
    /\ call = NoCall
    /\ \E label \in Range(ados.labels), k \in 0 .. (Len(ados.exponents) - 1) :
        call' = [ op |-> "next", label |-> label, k |-> k, out |-> next(ados, label, k) ]
    /\ UNCHANGED << result, phase, sys_shape, L_sys, L_td, exponents, max_depth, ados, cache,
                    gatherer, rhs, ss >>

CallPrev ==
    /\ phase = "ready"
    /\ call = NoCall
    /\ \E label \in Range(ados.labels), k \in 0 .. (Len(ados.exponents) - 1) :
        call' = [ op |-> "prev", label |-> label, k |-> k, out |-> prev(ados, label, k) ]
    /\ UNCHANGED << result, phase, sys_shape, L_sys, L_td, exponents, max_depth, ados, cache,
                    gatherer, rhs, ss >>

\* a level given with pattern lists is the length of one of the lists, or that plus one
NearLevel(level, f) == ~IsNone(f) /\ Val(level) \in { Len(Val(f)), Len(Val(f)) + 1 }

\* filter(level=level, tags=tags, dims=dims, types=types)
CallFilter ==
    /\ phase = "ready"
    /\ call = NoCall
    /\ \E level \in { None } \cup { Some(l) : l \in 0 .. (MaxDepth + 1) },
          tags \in Patterns("a"), dims \in Patterns(2),
          types \in Patterns(<< "member", "I" >>) \cup Patterns(<< "name", "I" >>)
                        \cup Patterns(<< "name", "X" >>) :
        /\ IF IsNone(level) \/ (IsNone(tags) /\ IsNone(dims) /\ IsNone(types))
           THEN TRUE
           ELSE NearLevel(level, tags) \/ NearLevel(level, dims) \/ NearLevel(level, types)
        /\ call' = [ op |-> "filter", level |-> level, tags |-> tags, dims |-> dims,
                     types |-> types, out |-> filter(ados, level, tags, dims, types) ]
    /\ UNCHANGED << result, phase, sys_shape, L_sys, L_td, exponents, max_depth, ados, cache,
                    gatherer, rhs, ss >>

\* the caller drops the outcome of the last call
Return ==
    /\ call # NoCall
    /\ call' = NoCall
    /\ UNCHANGED << result, phase, sys_shape, L_sys, L_td, exponents, max_depth, ados, cache,
                    gatherer, rhs, ss >>

NextADOs == NewADOs \/ CallIdx \/ CallNext \/ CallPrev \/ CallFilter \/ Return

SpecADOs == InitADOs /\ [][NextADOs]_vars

(***************************************************************************)
(* Properties of the hierarchy.                                            *)
(***************************************************************************)
\* the dimension of exponent i (1-based) as the claims state it
CapOf(i) == IF IsNone(exponents[i].dim) THEN max_depth + 1 ELSE Val(exponents[i].dim)
\* the tuples that are to be the labels of the hierarchy
ValidLabels ==
    { t \in Tuples(Len(exponents)) :
        /\ \A i \in 1 .. Len(exponents) : t[i] < CapOf(i)
        /\ SumSeq(t) <= max_depth }
AllZero == [ i \in 1 .. Len(exponents) |-> 0 ]

\* C2: the label list holds exactly the tuples with 0 <= entry i < dim i and sum
\* at most max_depth, each once, the all-zero tuple first, and idx is the inverse
\* of the list (a bijection onto 0 .. n_ADOs - 1); an exponent without a cap has
\* dim = max_depth + 1.
C2_LabelsExact ==
    phase = "ready" =>
        /\ Range(ados.labels) = ValidLabels
        /\ Len(ados.labels) = Cardinality(ValidLabels)
        /\ ados.labels[1] = AllZero
        /\ DOMAIN ados.label_idx = ValidLabels
        /\ \A i \in 1 .. Len(ados.labels) :
            /\ idx(ados, ados.labels[i]).exc = ""
            /\ idx(ados, ados.labels[i]).ret = i - 1

\* a hierarchy of several labels over a capped and an uncapped exponent
C2_Witness ==
    /\ phase = "ready"
    /\ max_depth = 2
    /\ Len(exponents) = 2
    /\ IsNone(exponents[1].dim) /\ exponents[2].dim = Some(2)
    /\ Len(ados.labels) = 5

\* C3: if next(L, k) returns a label L2 then prev(L2, k) = L, idx(L2) succeeds
\* and idx(L2) differs from idx(L).
C3_NextPrev ==
    (call.op = "next" /\ ~IsNone(call.out)) =>
        /\ prev(ados, Val(call.out), call.k) = Some(call.label)
        /\ idx(ados, Val(call.out)).exc = ""
        /\ idx(ados, Val(call.out)).ret # idx(ados, call.label).ret

\* next has returned a label along the second exponent from a label that is not zero
C3_Witness ==
    /\ call.op = "next"
    /\ ~IsNone(call.out)
    /\ call.k = 1
    /\ call.label # AllZero

\* whether the exponent satisfies the items given at position pos of the pattern
\* lists of the last filter call
PatternOk(f, pos, attr) == IsNone(f) \/ IsNone(Val(f)[pos]) \/ Val(f)[pos] = Some(attr)
SuppliesAt(exp, pos) ==
    /\ PatternOk(call.tags, pos, IF IsNone(exp.tag) THEN "" ELSE Val(exp.tag))
    /\ PatternOk(call.dims, pos, IF IsNone(exp.dim) THEN 0 - 1 ELSE Val(exp.dim))
    /\ IsNone(call.types) \/ IsNone(Val(call.types)[pos])
         \/ Val(Val(call.types)[pos])[2] = exp.type
\* the length of the pattern lists of the last filter call
PatternLen ==
    IF ~IsNone(call.tags) THEN Len(Val(call.tags))
    ELSE IF ~IsNone(call.dims) THEN Len(Val(call.dims))
    ELSE Len(Val(call.types))
\* the excitations of the label can be assigned one-to-one to the pattern positions
Assignable(label) ==
    \E a \in [ 1 .. PatternLen -> 1 .. Len(exponents) ] :
        /\ \A j \in 1 .. Len(exponents) :
            Cardinality({ pos \in 1 .. PatternLen : a[pos] = j }) = label[j]
        /\ \A pos \in 1 .. PatternLen : SuppliesAt(exponents[a[pos]], pos)
HasPatterns == ~(IsNone(call.tags) /\ IsNone(call.dims) /\ IsNone(call.types))

\* C4: filter with pattern lists of length n returns exactly the level-n labels of
\* the hierarchy whose n excitations can be assigned one-to-one to the n pattern
\* positions so that each supplying exponent matches the items at its position.
C4_FilterExact ==
    (call.op = "filter" /\ HasPatterns /\ call.out.exc = "") =>
        Range(call.out.ret) =
            { label \in Range(ados.labels) :
                SumSeq(label) = PatternLen /\ Assignable(label) }

GivenLens ==
    (IF IsNone(call.tags) THEN { } ELSE { Len(Val(call.tags)) })
        \cup (IF IsNone(call.dims) THEN { } ELSE { Len(Val(call.dims)) })
        \cup (IF IsNone(call.types) THEN { } ELSE { Len(Val(call.types)) })

\* the pattern lists differ in length, are longer than max_depth, or a level is
\* given with pattern lists of another length
BadPatterns ==
    \/ Cardinality(GivenLens) > 1
    \/ \E l \in GivenLens : l > max_depth
    \/ ~IsNone(call.level) /\ \E l \in GivenLens : l # Val(call.level)

\* an item of types is a string that names no member of BathExponent.types
UnknownTypeName ==
    /\ ~IsNone(call.types)
    /\ \E i \in 1 .. Len(Val(call.types)) :
          /\ ~IsNone(Val(call.types)[i])
          /\ Val(Val(call.types)[i])[1] = "name"
          /\ Val(Val(call.types)[i])[2] \notin TypeNames

\* C16: filter raises ValueError when the pattern lists differ in length, when
\* their length exceeds max_depth, or when a level is given with pattern lists
\* of another length; in every other case it returns a list without raising.
C16_FilterErrors ==
    call.op = "filter" =>
        IF BadPatterns THEN call.out.exc = "ValueError" ELSE call.out.exc = ""

\* C16, amended: a types item that is a string naming no member of
\* BathExponent.types raises KeyError first; otherwise filter raises ValueError
\* in the three cases of the claim and returns a list in every other case.
C16_FilterErrorsKnownTypes ==
    call.op = "filter" =>
        IF UnknownTypeName THEN call.out.exc = "KeyError"
        ELSE IF BadPatterns THEN call.out.exc = "ValueError"
        ELSE call.out.exc = ""

\* pattern lists of one length, longer than max_depth of a hierarchy with
\* exponents, with the level they define
C16_Witness ==
    /\ call.op = "filter"
    /\ ~UnknownTypeName
    /\ Len(exponents) = 2
    /\ max_depth = 1
    /\ call.level = Some(2)
    /\ GivenLens = { 2 }
    /\ ~IsNone(call.tags) /\ ~IsNone(call.types)
    /\ call.out.exc = "ValueError"

(***************************************************************************)
(* The gatherer on its own: blocks are added under any keys, then gathered.*)
(***************************************************************************)
InitGather ==
    /\ phase = "ready"
    /\ sys_shape \in 1 .. MaxSysDim
    /\ L_sys = MatZero(1)
    /\ L_td = << >>
    /\ exponents = << >>
    /\ max_depth = 0
    /\ ados = NoADOs
    /\ cache = NoCache
    /\ \E nhe \in 1 .. MaxBlocks :
        gatherer = GatherHEOMRHS([ i \in Idx(nhe) |-> i ], sys_shape * sys_shape, nhe)
    /\ rhs = NoRhs
    /\ ss = NoSS
    /\ call = NoCall
    /\ result = NoResult

GatherAddOp ==
    /\ gatherer.state = "open"
    /\ Len(gatherer.ops) < MaxOps
    /\ \E r \in Idx(gatherer.n_blocks), c \in Idx(gatherer.n_blocks),
          op \in BlockPool(gatherer.block_size) :
        gatherer' = add_op(gatherer, r, c, op)
    /\ UNCHANGED << result, phase, sys_shape, L_sys, L_td, exponents, max_depth, ados, cache, rhs, ss, call >>

GatherGather ==
    /\ gatherer.state = "open"
    /\ gatherer' = gather(gatherer)
    /\ UNCHANGED << result, phase, sys_shape, L_sys, L_td, exponents, max_depth, ados, cache, rhs, ss, call >>

NextGather == GatherAddOp \/ GatherGather

SpecGather == InitGather /\ [][NextGather]_vars

\* the triples added under the block key (r, c)
AddedAt(r, c) == { i \in 1 .. Len(gatherer.added) :
                    gatherer.added[i][1] = r /\ gatherer.added[i][2] = c }

\* C6: after add_op calls with pairwise distinct keys, gather() yields a square
\* matrix of side n_blocks * block_size whose sub-matrix at block (r, c) is op for
\* every added triple (r, c, op) and which is zero outside the added blocks; the
\* matrix is a function of the set of triples, not of the order of the calls.
C6_GatherPlacesBlocks ==
    /\ gatherer.state = "TypeError" =>
        \E i, j \in 1 .. Len(gatherer.added) :
            i # j /\ KeyEqual(gatherer.added[i], gatherer.added[j])
    /\ gatherer.state = "gathered" =>
        LET bs == gatherer.block_size
            side == gatherer.n_blocks * bs
        IN  /\ DOMAIN gatherer.out = Idx(side) \X Idx(side)
            /\ \A p \in Idx(side) \X Idx(side) :
                LET at == AddedAt(p[1] \div bs, p[2] \div bs)
                IN  /\ at = { } => gatherer.out[p] = CZero
                    /\ \A i \in at :
                        gatherer.out[p] = gatherer.added[i][3][<< p[1] % bs, p[2] % bs >>]

\* the three triples (0,0,A), (0,1,B), (1,0,C) have been gathered, added in an
\* order that is not the order of their keys
C6_Witness ==
    /\ gatherer.state = "gathered"
    /\ gatherer.n_blocks = 2
    /\ gatherer.block_size = 4
    /\ Len(gatherer.added) = 3
    /\ << gatherer.added[1][1], gatherer.added[1][2] >> = << 1, 0 >>
    /\ << gatherer.added[2][1], gatherer.added[2][2] >> = << 0, 1 >>
    /\ << gatherer.added[3][1], gatherer.added[3][2] >> = << 0, 0 >>
    /\ gatherer.added[1][3] # gatherer.added[2][3]

(***************************************************************************)
(* The solver: HEOMSolver is constructed from a constant system generator, *)
(* a list of exponents and a depth.                                        *)
(***************************************************************************)
\* a system generator that is not zero: dephasing of the off-diagonal entries
LDephase(n) ==
    [ p \in Idx(n * n) \X Idx(n * n) |->
        IF p[1] = p[2]
        THEN LET r == p[1] % n
                 c == p[1] \div n
             IN  << 0 - (r - c) * (r - c), c - r >>
        ELSE CZero ]
LsysPool(n) == { MatZero(n * n), LDephase(n) }

Init ==
    /\ phase = "new"
    /\ sys_shape \in 1 .. MaxSysDim
    /\ L_sys \in LsysPool(sys_shape)
    /\ L_td = << >>
    /\ exponents \in SolverLists(sys_shape)
    /\ max_depth \in 0 .. MaxDepth
    /\ ados = NoADOs
    /\ cache = NoCache
    /\ gatherer = NoGatherer
    /\ rhs = NoRhs
    /\ ss = NoSS
    /\ call = NoCall
    /\ result = NoResult

\* HEOMSolver(H, bath, max_depth): an exception of _combine_bath_exponents or
\* of _rhs ends the construction
Construct ==
    /\ phase = "new"
    /\ IF combine_bath_exponents(exponents).exc # ""
       THEN /\ phase' = "error"
            /\ rhs' = [ state |-> combine_bath_exponents(exponents).exc ]
            /\ UNCHANGED << ados, cache, gatherer >>
       ELSE \E self \in { HEOMSolver(L_sys, L_td, sys_shape, exponents, max_depth) } :
            \E r \in { calculate_rhs(self) } :
                /\ ados' = self.ados
                /\ cache' = self.cache
                /\ gatherer' = r.ops
                /\ rhs' = IF r.state = "ok"
                          THEN [ state |-> "ok", hier |-> r.hier, rhs |-> r.rhs,
                                 td |-> r.td ]
                          ELSE [ state |-> r.state ]
                /\ phase' = IF r.state = "ok" THEN "ready" ELSE "error"
    /\ UNCHANGED << result, sys_shape, L_sys, L_td, exponents, max_depth, ss, call >>

Next == Construct

Spec == Init /\ [][Next]_vars

(***************************************************************************)
(* Properties of the generator.                                            *)
(***************************************************************************)
\* the solver object, from the variables that hold its fields
Solver ==
    [ L_sys |-> L_sys, L_td |-> L_td, sys_shape |-> sys_shape, sup_shape |-> sys_shape * sys_shape,
      ados |-> ados, n_ados |-> Len(ados.labels), n_exponents |-> Len(ados.exponents),
      cache |-> cache ]
\* block (i, j) of a matrix of blocks of side bs
Block(M, i, j, bs) ==
    [ p \in Idx(bs) \X Idx(bs) |-> M[<< i * bs + p[1], j * bs + p[2] >>] ]
\* label b is label a with entry k (0-based) incremented by one
Incremented(a, b, k) ==
    /\ b[k + 1] = a[k + 1] + 1
    /\ \A i \in 1 .. Len(a) : i # k + 1 => b[i] = a[i]
Exps == 0 .. (Len(exponents) - 1)

\* C1: in the generator of a constant system, block (i, i) is the system generator
\* plus the decay block of label i; for labels L and L2 = L with entry k incremented,
\* block (idx(L), idx(L2)) is the ascend block at L along k and block
\* (idx(L2), idx(L)) the descend block at L2 along k; every other block is zero.
C1_BlockStructure ==
    phase = "ready" =>
        LET bs == sys_shape * sys_shape
            labels == ados.labels
        IN  /\ DOMAIN rhs.rhs = Idx(Len(labels) * bs) \X Idx(Len(labels) * bs)
            /\ \A i, j \in 1 .. Len(labels) :
                LET B == Block(rhs.rhs, i - 1, j - 1, bs)
                IN  /\ i = j => B = MatAdd(L_sys, grad_n(Solver, labels[i]))
                    /\ \A k \in Exps :
                        /\ Incremented(labels[i], labels[j], k)
                            => B = grad_next(Solver, labels[i], k).op
                        /\ Incremented(labels[j], labels[i], k)
                            => B = grad_prev(Solver, labels[i], k).op
                    /\ (i # j /\ \A k \in Exps :
                            ~Incremented(labels[i], labels[j], k)
                            /\ ~Incremented(labels[j], labels[i], k))
                        => B = MatZero(bs)

\* a generator of a 2 x 2 system with a generator that is not zero, over a bosonic
\* and a fermionic exponent, two levels deep
C1_Witness ==
    /\ phase = "ready"
    /\ sys_shape = 2
    /\ L_sys # MatZero(4)
    /\ max_depth = 2
    /\ Len(exponents) = 2
    /\ exponents[1].type = "RI" /\ exponents[2].type = "-"
    /\ Len(ados.labels) = 5

\* the decay rate of a label: the sum over k of L[k] * vk[k]
DecayRate(label) ==
    CSumSeq([ k \in 1 .. Len(exponents) |->
                << label[k] * exponents[k].vk[1], label[k] * exponents[k].vk[2] >> ])
\* the triples that _rhs added on the diagonal
DiagonalTriples ==
    { i \in 1 .. Len(gatherer.added) : gatherer.added[i][1] = gatherer.added[i][2] }

\* C7: the diagonal block that _grad_n produces for a label L is the identity
\* scaled by -(sum over k of L[k] * vk[k]), whatever the types of the exponents,
\* and the zero operator for the all-zero label.
C7_DecayBlock ==
    phase = "ready" =>
        /\ \A label \in Range(ados.labels) :
            \E i \in DiagonalTriples : gatherer.added[i][1] = label
        /\ \A i \in DiagonalTriples :
            LET label == gatherer.added[i][1]
                op == gatherer.added[i][3]
            IN  /\ \A p \in DOMAIN op :
                    op[p] = IF p[1] = p[2] THEN CNeg(DecayRate(label)) ELSE CZero
                /\ label = AllZero => op = MatZero(sys_shape * sys_shape)

\* a label with excitations of a bosonic and of a fermionic exponent has a decay block
C7_Witness ==
    /\ phase = "ready"
    /\ sys_shape = 2
    /\ Len(exponents) = 2
    /\ exponents[1].type = "I" /\ exponents[2].type = "-"
    /\ \E i \in DiagonalTriples : gatherer.added[i][1] = << 1, 1 >>

\* C8: with max_depth = 0 (and coupling operators of one dimension, without
\* which no hierarchy is built) the hierarchy has one ADO, the all-zero label, no
\* ascend or descend block is generated, and the generator is the system
\* generator (the hierarchy part is the zero matrix).
C8_DepthZero ==
    (phase # "new" /\ max_depth = 0 /\ combine_bath_exponents(exponents).exc = "") =>
        /\ phase = "ready"
        /\ ados.labels = << AllZero >>
        /\ Len(gatherer.added) = 1
        /\ gatherer.added[1][1] = AllZero /\ gatherer.added[1][2] = AllZero
        /\ rhs.hier = MatZero(sys_shape * sys_shape)
        /\ rhs.rhs = L_sys

\* a solver of depth 0 over two exponents with caps above 1 and a system generator
\* that is not zero
C8_Witness ==
    /\ phase = "ready"
    /\ max_depth = 0
    /\ sys_shape = 2
    /\ L_sys # MatZero(4)
    /\ Len(exponents) = 2
    /\ exponents[1].dim = Some(2) /\ exponents[2].dim = Some(2)

\* the exponent list has a bosonic and a fermionic exponent
MixedStatistics ==
    \E i, j \in 1 .. Len(exponents) :
        exponents[i].fermionic /\ ~exponents[j].fermionic

\* C11: the construction of a solver from an exponent list with both bosonic and
\* fermionic exponents fails, and no generator is assembled from such a list.
C11_MixedFails ==
    (phase # "new" /\ MixedStatistics) =>
        /\ phase = "error"
        /\ gatherer.state # "gathered"
        /\ rhs.state # "ok"

\* the type of the exponent is not one its statistics supports
Unsupported(exp) ==
    IF exp.fermionic THEN exp.type \notin { "+", "-" }
    ELSE exp.type \notin { "R", "I", "RI" }

\* C12: the construction of a solver whose exponent list has, at any position,
\* an exponent of a type its statistics does not support fails with a
\* configuration error (ValueError), for every max_depth and dimension cap.
C12_UnsupportedTypeFails ==
    (phase # "new" /\ \E i \in 1 .. Len(exponents) : Unsupported(exponents[i])) =>
        /\ phase = "error"
        /\ rhs.state = "ValueError"

\* C17: for every label L of the hierarchy and every exponent k, next(L, k) is
\* L with entry k incremented exactly when that tuple is a label of the
\* hierarchy (entry below the cap and level at most max_depth) and None
\* otherwise, prev(L, k) is L with entry k decremented exactly when L[k] > 0,
\* and that tuple is then a label; no idx lookup of the construction fails.
C17_NeighboursClosed ==
    (phase # "new" /\ ados.exponents = exponents) =>
        /\ \A L \in Range(ados.labels) : \A k \in Exps :
              LET up == [ L EXCEPT ![k + 1] = L[k + 1] + 1 ]
                  down == [ L EXCEPT ![k + 1] = L[k + 1] - 1 ]
              IN  /\ next(ados, L, k) = IF up \in Range(ados.labels) THEN Some(up) ELSE None
                  /\ up \in Range(ados.labels) <=>
                        (L[k + 1] + 1 < CapOf(k + 1) /\ SumSeq(L) + 1 <= max_depth)
                  /\ prev(ados, L, k) = IF L[k + 1] > 0 THEN Some(down) ELSE None
                  /\ L[k + 1] > 0 => down \in Range(ados.labels)
        /\ gatherer.state # "KeyError"
        /\ rhs.state # "KeyError"

\* a generator was built from a hierarchy in which next is refused by a cap for
\* one label and by the depth for another, and prev is refused and granted
C17_Witness ==
    /\ phase = "ready"
    /\ max_depth = 2
    /\ Len(exponents) = 2
    /\ exponents[1].dim = Some(2) /\ IsNone(exponents[2].dim)
    /\ next(ados, << 1, 0 >>, 0) = None /\ next(ados, << 1, 0 >>, 1) = Some(<< 1, 1 >>)
    /\ next(ados, << 0, 2 >>, 0) = None
    /\ prev(ados, << 1, 0 >>, 1) = None /\ prev(ados, << 1, 1 >>, 1) = Some(<< 1, 0 >>)
    /\ Len(gatherer.added) > Len(ados.labels)

\* the triples added by _rhs whose row is the label L and whose column is M
TriplesAt(L, M) ==
    { i \in 1 .. Len(gatherer.added) :
        gatherer.added[i][1] = L /\ gatherer.added[i][2] = M }

\* C18: during the construction of the generator no two triples are added under
\* the same (row index, column index) pair: a label contributes one diagonal
\* triple and, per exponent, at most one ascend and one descend triple, so the
\* sort of gather never compares two operators.
C18_OneTriplePerKey ==
    (phase # "new" /\ ados.exponents = exponents) =>
        /\ \A i, j \in 1 .. Len(gatherer.ops) :
              i # j => ~KeyEqual(gatherer.ops[i], gatherer.ops[j])
        /\ gatherer.state # "TypeError"
        /\ \A i \in 1 .. Len(gatherer.added) :
              LET L == gatherer.added[i][1]
                  M == gatherer.added[i][2]
              IN  \/ M = L
                  \/ \E k \in Exps : next(ados, L, k) = Some(M) \/ prev(ados, L, k) = Some(M)
        /\ phase = "ready" =>
              \A L \in Range(ados.labels) :
                  /\ Cardinality(TriplesAt(L, L)) = 1
                  /\ \A k \in Exps :
                        /\ ~IsNone(next(ados, L, k)) =>
                              Cardinality(TriplesAt(L, Val(next(ados, L, k)))) = 1
                        /\ ~IsNone(prev(ados, L, k)) =>
                              Cardinality(TriplesAt(L, Val(prev(ados, L, k)))) = 1

\* a generator gathered from the triples of six labels over two exponents
C18_Witness ==
    /\ phase = "ready"
    /\ gatherer.state = "gathered"
    /\ Len(exponents) = 2
    /\ Len(ados.labels) = 6
    /\ Len(gatherer.added) = 18

\* the number of excitations of fermionic exponents in the first m entries of L
RECURSIVE FermionsIn(_, _)
FermionsIn(L, m) ==
    IF m = 0 THEN 0
    ELSE FermionsIn(L, m - 1) + (IF exponents[m].fermionic THEN L[m] ELSE 0)

\* the ascend block the claim describes for the label L and the exponent k
FermionicAscend(L, k) ==
    LET exp == exponents[k + 1]
        Qx == IF exp.type = "+" THEN exp.Q ELSE MatAdjoint(exp.Q)
        pre == spre(Qx, sys_shape)
        post == spost(Qx, sys_shape)
        form == IF FermionsIn(L, Len(L)) % 2 = 0 THEN MatSub(pre, post) ELSE MatAdd(pre, post)
        factor == IF FermionsIn(L, k) % 2 = 0 THEN << 0, 0 - 1 >> ELSE << 0, 1 >>
    IN  MatMul(form, factor)

\* C21: the ascend block of a fermionic exponent k at a label L is the difference
\* form (pre minus post) when the number of fermionic excitations of L is even
\* and the sum form when it is odd, times -i when the number of fermionic
\* excitations before k is even and +i when it is odd; a "+" exponent uses the
\* coupling operator and a "-" exponent its adjoint; excitations of exponents
\* that are not fermionic count for neither parity.
C21_FermionicAscend ==
    (phase # "new" /\ ados.exponents = exponents) =>
        /\ \A i \in 1 .. Len(gatherer.added) : \A k \in Exps :
              ( /\ Incremented(gatherer.added[i][1], gatherer.added[i][2], k)
                /\ exponents[k + 1].fermionic )
                  => gatherer.added[i][3] = FermionicAscend(gatherer.added[i][1], k)
        /\ \A L \in Range(ados.labels) : \A k \in Exps :
              (exponents[k + 1].fermionic /\ exponents[k + 1].type \in { "+", "-" })
                  => grad_next(Solver, L, k) = Ok(FermionicAscend(L, k))

\* the ascend blocks along a "-" exponent were added at a label with a fermionic
\* excitation before it and at a label with a bosonic excitation before it
C21_Witness ==
    /\ phase = "ready"
    /\ sys_shape = 2
    /\ Len(exponents) = 2
    /\ exponents[2].type = "-"
    /\ \/ exponents[1].type = "+" /\ max_depth = 2
       \/ exponents[1].type = "R" /\ max_depth = 2
    /\ \E i \in 1 .. Len(gatherer.added) :
          gatherer.added[i][1] = << 1, 0 >> /\ gatherer.added[i][2] = << 1, 1 >>

\* the label with a single excitation, of the exponent k
Unit(k) == [ i \in 1 .. Len(exponents) |-> IF i = k + 1 THEN 1 ELSE 0 ]

\* the solver with the exponent k replaced by one of the given type and
\* coefficient on the same coupling operator
AsType(k, type, c) ==
    [ Solver EXCEPT !.ados.exponents[k + 1].type = type, !.ados.ck[k + 1] = c ]

\* the ascend block the claim describes for a bosonic exponent k
BosonicAscend(k) ==
    MatMul(MatSub(spre(exponents[k + 1].Q, sys_shape), spost(exponents[k + 1].Q, sys_shape)),
           << 0, 0 - 1 >>)

\* the descend block the claim describes for the label L and a bosonic exponent k
BosonicDescend(L, k) ==
    MatMul(grad_prev(Solver, Unit(k), k).op, CInt(L[k + 1]))

\* C22: for a bosonic exponent k the ascend block is -i times the difference
\* form at every label, the descend block at a label L is L[k] times the
\* descend block of a single excitation, and the descend block of an RI
\* exponent with the coefficients (c1, c2) is the sum of the descend blocks of
\* an R exponent with c1 and of an I exponent with c2 on the same operator.
C22_BosonicBlocks ==
    (phase # "new" /\ ados.exponents = exponents) =>
        /\ \A L \in Range(ados.labels) : \A k \in Exps :
              ~exponents[k + 1].fermionic =>
                  /\ grad_next(Solver, L, k) = Ok(BosonicAscend(k))
                  /\ exponents[k + 1].type \in { "R", "I", "RI" } =>
                        grad_prev(Solver, L, k) = Ok(BosonicDescend(L, k))
                  /\ exponents[k + 1].type = "RI" =>
                        grad_prev(Solver, L, k).op =
                            MatAdd(grad_prev(AsType(k, "R", exponents[k + 1].ck), L, k).op,
                                   grad_prev(AsType(k, "I", Val(exponents[k + 1].ck2)), L, k).op)
        /\ \A i \in 1 .. Len(gatherer.added) : \A k \in Exps :
              ~exponents[k + 1].fermionic =>
                  /\ Incremented(gatherer.added[i][1], gatherer.added[i][2], k)
                        => gatherer.added[i][3] = BosonicAscend(k)
                  /\ Incremented(gatherer.added[i][2], gatherer.added[i][1], k)
                        => gatherer.added[i][3] = BosonicDescend(gatherer.added[i][1], k)

\* the descend block of an RI exponent was added at a label with two of its
\* excitations, in a 2 x 2 system
C22_Witness ==
    /\ phase = "ready"
    /\ sys_shape = 2
    /\ max_depth = 2
    /\ Len(exponents) = 2
    /\ exponents[1].type = "R" /\ exponents[2].type = "RI"
    /\ \E i \in 1 .. Len(gatherer.added) :
          /\ gatherer.added[i][1] = << 0, 2 >> /\ gatherer.added[i][2] = << 0, 1 >>
          /\ gatherer.added[i][3] # MatZero(4)

(***************************************************************************)
(* The steady state: the solver is constructed and steady_state is called; *)
(* the linear solver is an outside collaborator and may return any vector. *)
(***************************************************************************)
\* the values the linear solver returns for the corners of the first block
DiagFirst == { CZero, COne, << 1, 1 >> }
DiagLast == { CZero, COne, << 0, 0 - 1 >> }
OffUpper == { CZero, CImag, COne }
OffLower == { CZero, << 0, 0 - 1 >>, COne }
\* the vectors the linear solver returns: the first block, read column-major, has
\* the given values in its corners, and the last entry of the vector is free too
SolverOutputs(n, n_ados) ==
    { [ i \in Idx(n * n * n_ados) |->
            IF i = 0 THEN d0
            ELSE IF i = n * n - 1 THEN d1
            ELSE IF i = n - 1 THEN lo
            ELSE IF i = (n - 1) * n THEN up
            ELSE IF i = n * n * n_ados - 1 THEN tail
            ELSE CZero ] :
        d0 \in DiagFirst, d1 \in DiagLast, up \in OffUpper, lo \in OffLower,
        tail \in { CZero, COne } }

SSPool(n) == { ExpR(n), ExpMinus(n) }

\* coefficients of the time-dependent elements of a generator
CoeffPool == { [ t \in 0 .. MaxTime |-> t ], [ t \in 0 .. MaxTime |-> 1 - 2 * t ] }
\* an operator of a time-dependent element: it mixes the populations
LMix(n) ==
    [ p \in Idx(n * n) \X Idx(n * n) |->
        IF p[1] % (n + 1) = 0 /\ p[2] % (n + 1) = 0
        THEN (IF p[1] = p[2] THEN << 0 - 1, 0 >> ELSE COne)
        ELSE CZero ]
\* the lists of time-dependent elements of a generator
TdLists(n) ==
    { << >> } \cup { << [ op |-> LDephase(n), coeff |-> c ] >> : c \in CoeffPool }
        \cup { << [ op |-> LMix(n), coeff |-> [ t \in 0 .. MaxTime |-> t ] ],
                 [ op |-> LDephase(n), coeff |-> [ t \in 0 .. MaxTime |-> 1 - 2 * t ] ] >> }

InitSS ==
    /\ phase = "new"
    /\ sys_shape \in 1 .. MaxSysDim
    /\ L_sys \in LsysPool(sys_shape) \cup { LMix(sys_shape) }
    /\ L_td \in { << >>, << [ op |-> LDephase(sys_shape),
                               coeff |-> [ t \in 0 .. MaxTime |-> t ] ] >> }
    /\ exponents \in UNION { [ 1 .. len -> SSPool(sys_shape) ] : len \in 0 .. MaxExps }
    /\ max_depth \in 0 .. MaxDepth
    /\ ados = NoADOs
    /\ cache = NoCache
    /\ gatherer = NoGatherer
    /\ rhs = NoRhs
    /\ ss = NoSS
    /\ call = NoCall
    /\ result = NoResult

\* steady_state(): returns (steady_state, steady_ados)
SteadyState ==
    /\ phase = "ready"
    /\ ss = NoSS
    /\ \E use_mkl, mkl, solved \in BOOLEAN :
       \E solution \in IF solved /\ IsConstant(Solver)
                       THEN SolverOutputs(sys_shape, Len(ados.labels))
                       ELSE { SteadyB(Solver) } :
       \E r \in { steady_state(Solver, QobjEvoAt(rhs.rhs, rhs.td, 0), use_mkl, mkl,
                                solved, solution) } :
        /\ ss' = r
        /\ rhs' = IF r.state = "ValueError" THEN rhs
                  ELSE [ rhs EXCEPT !.rhs = SteadyCopy(rhs.rhs, r.L) ]
    /\ UNCHANGED << result, phase, sys_shape, L_sys, L_td, exponents, max_depth, ados, cache,
                    gatherer, call >>

\* the caller drops the values returned by steady_state
SteadyReturn ==
    /\ ss # NoSS
    /\ ss' = NoSS
    /\ UNCHANGED << result, phase, sys_shape, L_sys, L_td, exponents, max_depth, ados, cache,
                    gatherer, rhs, call >>

NextSS == Construct \/ SteadyState \/ SteadyReturn

SpecSS == InitSS /\ [][NextSS]_vars

\* row i of the product of a matrix and a vector
RECURSIVE RowDot(_, _, _, _)
RowDot(M, x, i, j) ==
    IF j < 0 THEN CZero ELSE CAdd(CMul(M[<< i, j >>], x[j]), RowDot(M, x, i, j - 1))
\* the vector solves the linear system of the last steady_state call exactly
SolvesExactly ==
    \A i \in DOMAIN ss.b_mat :
        RowDot(ss.L, ss.solution, i, Cardinality(DOMAIN ss.b_mat) - 1) = ss.b_mat[i]
Trace(M, n) == CSumSeq([ i \in 1 .. n |-> M[<< i - 1, i - 1 >>] ])

\* C9: if the linear solver returns a vector that satisfies the modified system
\* exactly, the density matrix returned by steady_state has trace exactly 1.
C9_TraceOne ==
    (ss.state = "done" /\ SolvesExactly) => Trace(ss.steady_state, sys_shape) = COne

\* an exact solution of a system with two ADOs of a 2 x 2 system whose diagonal
\* entries are not real
C9_Witness ==
    /\ ss.state = "done"
    /\ SolvesExactly
    /\ sys_shape = 2
    /\ Len(ados.labels) = 2
    /\ ss.solution[0] = << 1, 1 >>

\* the first block of the solution read in the layout of the state vector
\* (column-major): entry r, c is entry c * n + r of the solution
RhoOfSolution ==
    [ p \in Idx(sys_shape) \X Idx(sys_shape) |-> ss.solution[p[2] * sys_shape + p[1]] ]
IsHermitian(M) == M = MatAdjoint(M)

\* C10: whenever the first system_dim^2 entries of the solution are a Hermitian
\* matrix rho in the column-major layout, the density matrix returned by
\* steady_state is rho and is extract(0) of the returned ADO state.
C10_SteadyIsBlockZero ==
    (ss.state = "done" /\ IsHermitian(RhoOfSolution)) =>
        /\ ss.steady_state = RhoOfSolution
        /\ ss.steady_state = extract(ss.steady_ados, 0)

\* C13: steady_state on a time-dependent generator raises ValueError before the
\* right-hand side or the modified matrix is built and before a linear solver is
\* called; on a constant generator exactly one linear solver is called, once:
\* MKL if it is available and asked for, scipy otherwise, also when it fails.
C13_OneBackend ==
    ss.state # "none" =>
        IF L_td # << >>
        THEN /\ ss.state = "ValueError"
             /\ ss.calls = << >>
             /\ DOMAIN ss \cap { "b_mat", "L", "solution" } = { }
        ELSE /\ ss.state \in { "done", "SolverError" }
             /\ ss.calls = << IF ss.mkl /\ ss.use_mkl THEN "mkl" ELSE "scipy" >>

\* MKL was asked for and available, and failed on a constant generator
C13_Witness ==
    /\ ss.state = "SolverError"
    /\ ss.use_mkl /\ ss.mkl
    /\ ss.calls = << "mkl" >>
    /\ L_td = << >>

\* steady_state was called on a time-dependent generator
C13_WitnessTimeDependent ==
    /\ ss.state = "ValueError"
    /\ L_td # << >>

\* C20: the right-hand side built by steady_state has length n_ADOs * n^2, a 1
\* in place 0 and 0 elsewhere; the matrix is the generator in every row but row
\* 0, and row 0 has exactly 1 in the places j * (n + 1), j < n, and exactly 0 in
\* every other place, whatever row 0 of the generator held.
C20_LinearSystem ==
    ss.state \in { "done", "SolverError" } =>
        LET n == sys_shape
            N == Len(ados.labels) * n * n
        IN  /\ DOMAIN ss.b_mat = Idx(N)
            /\ \A i \in Idx(N) : ss.b_mat[i] = IF i = 0 THEN COne ELSE CZero
            /\ DOMAIN ss.L = Idx(N) \X Idx(N)
            /\ \A r \in Idx(N) \ { 0 } : \A c \in Idx(N) :
                  ss.L[<< r, c >>] = rhs.rhs[<< r, c >>]
            /\ \A c \in Idx(N) :
                  ss.L[<< 0, c >>] =
                      IF c < n * n /\ c % (n + 1) = 0 THEN COne ELSE CZero

\* a system of several ADOs of a 2 x 2 system whose generator has, in row 0,
\* an entry that is not zero in a place of the trace and in a place of an ADO
C20_Witness ==
    /\ ss.state = "done"
    /\ sys_shape = 2
    /\ Len(ados.labels) > 1
    /\ rhs.rhs[<< 0, 0 >>] # CZero
    /\ \E c \in 4 .. (4 * Len(ados.labels) - 1) : rhs.rhs[<< 0, c >>] # CZero

(***************************************************************************)
(* Initial states: the solver is constructed, _prepare_state is called on  *)
(* an initial state and _restore_state on the vector it returned.          *)
(***************************************************************************)
\* an array of the given shape (of two or three axes) with different entries
ArrayOf(shape) ==
    IF Len(shape) = 3
    THEN [ t \in Idx(shape[1]) \X Idx(shape[2]) \X Idx(shape[3]) |->
            << t[1] + 2 * t[2], t[3] - t[1] >> ]
    ELSE [ t \in Idx(shape[1]) \X Idx(shape[2]) |-> << t[1], t[2] >> ]

\* the shapes of the arrays given as initial ADOs: the shape of the hierarchy,
\* shapes that differ from it in one axis, and a matrix
ShapePool(n_ados, n) ==
    { << n_ados, n, n >>, << n_ados + 1, n, n >>, << n_ados, n + 1, n >>,
      << n_ados, n, n + 1 >>, << n * n, n_ados >>, << n, n >> }

\* the initial states given to _prepare_state
StatePool(n_ados, n) ==
    UNION { { [ kind |-> "Qobj", dims |-> << d, d >>, data |-> m ] : m \in BlockPool(d) } :
              d \in 1 .. MaxSysDim }
    \cup { [ kind |-> "Qobj", dims |-> << d, 1 >>,
             data |-> [ p \in Idx(d) \X Idx(1) |-> COne ] ] : d \in 1 .. MaxSysDim }
    \cup { [ kind |-> k, shape |-> sh, data |-> ArrayOf(sh) ] :
             k \in { "HierarchyADOsState", "array" }, sh \in ShapePool(n_ados, n) }
    \cup { [ kind |-> "other" ] }

PrepareState ==
    /\ phase = "ready"
    /\ call = NoCall
    /\ \E state \in StatePool(Len(ados.labels), sys_shape) :
        call' = [ op |-> "_prepare_state", state |-> state,
                  ret |-> prepare_state(Solver, state) ]
    /\ UNCHANGED << result, phase, sys_shape, L_sys, L_td, exponents, max_depth, ados, cache,
                    gatherer, rhs, ss >>

\* the vector returned by _prepare_state is handed to _restore_state
RestoreState ==
    /\ call.op = "_prepare_state"
    /\ call.ret.exc = ""
    /\ call' = [ op |-> "_restore_state", state |-> call.state, vec |-> call.ret.vec,
                 ret |-> restore_state(Solver, call.ret.vec) ]
    /\ UNCHANGED << result, phase, sys_shape, L_sys, L_td, exponents, max_depth, ados, cache,
                    gatherer, rhs, ss >>

NextState == Construct \/ PrepareState \/ RestoreState \/ Return

SpecState == InitSS /\ [][NextState]_vars

\* the initial state has a shape: it is a HierarchyADOsState or array-like
HasShape(state) == state.kind \in { "HierarchyADOsState", "array" }

\* C14: _prepare_state raises TypeError for a value that is not a Qobj, not a
\* HierarchyADOsState and has no shape, ValueError for initial ADOs whose shape
\* is not (n_ADOs, n, n) and for a Qobj whose dims are not the system dims, and
\* returns a vector of length n_ADOs * n^2 for every other input.
C14_PrepareValidates ==
    call.op = "_prepare_state" =>
        LET state == call.state
            shape == << Len(ados.labels), sys_shape, sys_shape >>
        IN  IF state.kind # "Qobj" /\ ~HasShape(state)
            THEN call.ret = [ exc |-> "TypeError" ]
            ELSE IF HasShape(state) /\ state.shape # shape
            THEN call.ret = [ exc |-> "ValueError" ]
            ELSE IF state.kind = "Qobj" /\ state.dims # << sys_shape, sys_shape >>
            THEN call.ret = [ exc |-> "ValueError" ]
            ELSE /\ call.ret.exc = ""
                 /\ DOMAIN call.ret.vec = Idx(Len(ados.labels) * sys_shape * sys_shape)

\* initial ADOs with as many entries as the hierarchy has, in another shape,
\* are rejected
C14_Witness ==
    /\ call.op = "_prepare_state"
    /\ call.state.kind = "array"
    /\ call.state.shape = << sys_shape * sys_shape, Len(ados.labels) >>
    /\ sys_shape = 2
    /\ Len(ados.labels) > 1
    /\ call.ret = [ exc |-> "ValueError" ]

\* C15: for a density matrix rho, the vector of _prepare_state has the entries
\* of rho in column-major order in its first n^2 places and zero in every
\* other place, and _restore_state of that vector returns a state whose rho is
\* the original rho.
C15_RhoRoundTrip ==
    /\ (call.op = "_prepare_state" /\ call.state.kind = "Qobj" /\ call.ret.exc = "") =>
          \A j \in DOMAIN call.ret.vec :
              call.ret.vec[j] =
                  IF j < sys_shape * sys_shape
                  THEN call.state.data[<< j % sys_shape, j \div sys_shape >>]
                  ELSE CZero
    /\ (call.op = "_restore_state" /\ call.state.kind = "Qobj") =>
          call.ret.rho = call.state.data

\* a 2 x 2 matrix that is not symmetric went through a hierarchy of several ADOs
C15_Witness ==
    /\ call.op = "_restore_state"
    /\ call.state.kind = "Qobj"
    /\ sys_shape = 2
    /\ Len(ados.labels) > 1
    /\ call.state.data # MatTranspose(call.state.data)
    /\ call.ret.rho = call.state.data

(***************************************************************************)
(* Repeated calls on one solver: the solver is constructed, and            *)
(* steady_state, _prepare_state and _restore_state are called in any       *)
(* order, any number of times.                                             *)
(***************************************************************************)
\* steady_state(), called whatever was called before: the call keeps the values
\* returned by the call before it
SteadyStateCall ==
    /\ phase = "ready"
    /\ \E use_mkl, solved \in BOOLEAN :
       \E r \in { steady_state(Solver, QobjEvoAt(rhs.rhs, rhs.td, 0), use_mkl, TRUE,
                                solved, SteadyB(Solver)) } :
        /\ call' = [ op |-> "steady_state", previous |-> ss, ret |-> r ]
        /\ ss' = r
        /\ rhs' = IF r.state = "ValueError" THEN rhs
                  ELSE [ rhs EXCEPT !.rhs = SteadyCopy(rhs.rhs, r.L) ]
    /\ UNCHANGED << result, phase, sys_shape, L_sys, L_td, exponents, max_depth, ados, cache,
                    gatherer >>

NextFrame == Construct \/ SteadyStateCall \/ PrepareState \/ RestoreState \/ Return

SpecFrame == InitSS /\ [][NextFrame]_vars

\* C23: whatever steady_state, _prepare_state and _restore_state calls were
\* made on a constructed solver, its generator, its labels, its index map and
\* its superoperator caches are the ones the construction built (so the row 0
\* of the generator was not overwritten), and a steady_state call builds the
\* linear system that the steady_state call before it built.
C23_SolverUnchanged ==
    phase = "ready" =>
        \E self \in { HEOMSolver(L_sys, L_td, sys_shape, exponents, max_depth) } :
        \E r \in { calculate_rhs(self) } :
            /\ ados = self.ados
            /\ cache = self.cache
            /\ rhs = [ state |-> "ok", hier |-> r.hier, rhs |-> r.rhs, td |-> r.td ]
            /\ (call.op = "steady_state" /\ call.ret.state # "ValueError") =>
                  /\ call.ret.L = SteadyL(self, r.rhs)
                  /\ call.previous # NoSS =>
                        /\ call.ret.L = call.previous.L
                        /\ call.ret.b_mat = call.previous.b_mat

\* a second steady_state call on a hierarchy of several ADOs of a 2 x 2 system,
\* where the trace constraint differs from the row 0 of the generator
C23_Witness ==
    /\ phase = "ready"
    /\ call.op = "steady_state"
    /\ call.previous # NoSS
    /\ call.ret.state = "done"
    /\ sys_shape = 2
    /\ Len(ados.labels) > 2
    /\ \E c \in Idx(4 * Len(ados.labels)) : call.ret.L[<< 0, c >>] # rhs.rhs[<< 0, c >>]
    /\ \E c \in Idx(4 * Len(ados.labels)) : rhs.rhs[<< 0, c >>] # CZero

(***************************************************************************)
(* The time-dependent generator: the solver is constructed from a system   *)
(* generator with time-dependent elements and its generator is evaluated.  *)
(***************************************************************************)
InitTD ==
    /\ phase = "new"
    /\ sys_shape \in 1 .. MaxSysDim
    /\ L_sys \in LsysPool(sys_shape)
    /\ L_td \in TdLists(sys_shape)
    /\ exponents \in UNION { [ 1 .. len -> SSPool(sys_shape) ] : len \in 0 .. MaxExps }
    /\ max_depth \in 0 .. MaxDepth
    /\ ados = NoADOs
    /\ cache = NoCache
    /\ gatherer = NoGatherer
    /\ rhs = NoRhs
    /\ ss = NoSS
    /\ call = NoCall
    /\ result = NoResult

\* self.rhs(t): the generator at the time t
EvalRhs ==
    /\ phase = "ready"
    /\ call = NoCall
    /\ \E t \in 0 .. MaxTime :
        call' = [ op |-> "rhs", t |-> t, out |-> QobjEvoAt(rhs.rhs, rhs.td, t) ]
    /\ UNCHANGED << result, phase, sys_shape, L_sys, L_td, exponents, max_depth, ados, cache,
                    gatherer, rhs, ss >>

NextTD == Construct \/ EvalRhs \/ Return

SpecTD == InitTD /\ [][NextTD]_vars

\* the system generator at the time t
LsysAt(t) == QobjEvoAt(L_sys, L_td, t)

\* the generator assembled for the constant system generator L
ConstantAssembly(L) ==
    calculate_rhs(HEOMSolver(L, << >>, sys_shape, exponents, max_depth)).rhs

\* C19: the generator evaluated at a time t is the matrix assembled for the
\* constant system generator L_sys(t); the hierarchy part is the one computed at
\* the construction, every off-diagonal block is the block of the hierarchy
\* part at every time, and every diagonal block changes between two times by
\* L_sys(t1) - L_sys(t2).
C19_TimeDependentGenerator ==
    call.op = "rhs" =>
        LET bs == sys_shape * sys_shape
            ADOs == Idx(Len(ados.labels))
        IN  /\ call.out = ConstantAssembly(LsysAt(call.t))
            /\ rhs.hier = gatherer.out
            /\ \A i, j \in ADOs :
                  i # j => Block(call.out, i, j, bs) = Block(rhs.hier, i, j, bs)
            /\ \A i \in ADOs : \A t2 \in 0 .. MaxTime :
                  MatSub(Block(call.out, i, i, bs),
                         Block(QobjEvoAt(rhs.rhs, rhs.td, t2), i, i, bs))
                      = MatSub(LsysAt(call.t), LsysAt(t2))

\* the generator of several ADOs of a 2 x 2 system with two time-dependent
\* elements, at a time where the system generator is not what it is at time 0
C19_Witness ==
    /\ call.op = "rhs"
    /\ call.t = 2
    /\ sys_shape = 2
    /\ Len(L_td) = 2
    /\ Len(ados.labels) > 2
    /\ LsysAt(2) # LsysAt(0)
    /\ call.out # QobjEvoAt(rhs.rhs, rhs.td, 0)

(***************************************************************************)
(* The result of a run: an HEOMResult is made and the states of the ADOs   *)
(* are stored in it.                                                       *)
(***************************************************************************)
\* the solver whose states are stored: two ADOs of a 2 x 2 system
ResultSolver ==
    [ sys_shape |-> 2, ados |-> HierarchyADOs(<< ExpR(2) >>, 1), n_ados |-> 2 ]

\* the ADO states handed to the result, as _restore_state returns them: some
\* differ in rho, some only in the other ADO
AdoStatePool ==
    { restore_state(ResultSolver,
                    [ j \in Idx(8) |-> IF j < 4 THEN << j, a >> ELSE << b, j >> ]) :
        a, b \in 0 .. 1 }

InitResult ==
    /\ phase = "new"
    /\ sys_shape = ResultSolver.sys_shape
    /\ L_sys = MatZero(1)
    /\ L_td = << >>
    /\ exponents = ResultSolver.ados.exponents
    /\ max_depth = ResultSolver.ados.max_depth
    /\ ados = ResultSolver.ados
    /\ cache = NoCache
    /\ gatherer = NoGatherer
    /\ rhs = NoRhs
    /\ ss = NoSS
    /\ call = NoCall
    /\ result = NoResult

\* HEOMResult(...): _post_init reads the option store_ados
NewResult ==
    /\ phase = "new"
    /\ \E store_ados \in BOOLEAN : result' = post_init(store_ados)
    /\ phase' = "ready"
    /\ UNCHANGED << sys_shape, L_sys, L_td, exponents, max_depth, ados, cache,
                    gatherer, rhs, ss, call >>

StoreState ==
    /\ phase = "ready"
    /\ Len(result.states) < MaxStored
    /\ \E t \in 0 .. MaxTime : \E ado_state \in AdoStatePool :
        /\ result' = store_state(result, t, ado_state)
        /\ call' = [ op |-> "_store_state", t |-> t, ado_state |-> ado_state ]
    /\ UNCHANGED << phase, sys_shape, L_sys, L_td, exponents, max_depth, ados, cache,
                    gatherer, rhs, ss >>

StoreFinalState ==
    /\ phase = "ready"
    /\ \E t \in 0 .. MaxTime : \E ado_state \in AdoStatePool :
        /\ result' = store_final_state(result, t, ado_state)
        /\ call' = [ op |-> "_store_final_state", t |-> t, ado_state |-> ado_state ]
    /\ UNCHANGED << phase, sys_shape, L_sys, L_td, exponents, max_depth, ados, cache,
                    gatherer, rhs, ss >>

NextResult == NewResult \/ StoreState \/ StoreFinalState

SpecResult == InitResult /\ [][NextResult]_vars

\* what a result holds after a step, the call of the step being call'
ResultStep ==
    phase' = "ready" =>
        /\ phase = "new" => result'.states = << >> /\ result'.final_state = None
        /\ (phase = "ready" /\ call'.op = "_store_state") =>
              /\ result'.states = Append(result.states, call'.ado_state.rho)
              /\ result'.final_state = result.final_state
        /\ (phase = "ready" /\ call'.op = "_store_final_state") =>
              /\ result'.states = result.states
              /\ result'.final_state = Some(call'.ado_state.rho)
              /\ result'.store_ados => result'.final_ado_state = Some(call'.ado_state)
        /\ result'.store_ados =>
              /\ Len(result'.ado_states) = Len(result'.states)
              /\ \A i \in 1 .. Len(result'.states) :
                    result'.ado_states[i].rho = result'.states[i]
              /\ IF IsNone(result'.final_ado_state)
                 THEN IsNone(result'.final_state)
                 ELSE result'.final_state = Some(Val(result'.final_ado_state).rho)
              /\ (phase = "ready" /\ call'.op = "_store_state") =>
                    /\ result'.ado_states = Append(result.ado_states, call'.ado_state)
                    /\ result'.final_ado_state = result.final_ado_state
              /\ (phase = "ready" /\ call'.op = "_store_final_state") =>
                    result'.ado_states = result.ado_states
        /\ ~result'.store_ados =>
              DOMAIN result' = { "store_ados", "states", "final_state" }

\* C24: every _store_state call appends the rho of its ADO state to states,
\* and nothing else changes states; with store_ados, ado_states is as long as
\* states, ado_states[i].rho is states[i], final_ado_state is the state of the
\* last _store_final_state call and final_state is its rho; without
\* store_ados, the result has no attribute that holds a full ADO state.
C24_ResultStores == [][ResultStep]_vars

\* three states were stored with store_ados, two of them with the same rho, and
\* a final state that is none of them
C24_Witness ==
    /\ phase = "ready"
    /\ result.store_ados
    /\ Len(result.states) = 3
    /\ result.states[1] = result.states[2]
    /\ result.ado_states[1] # result.ado_states[2]
    /\ result.states[3] # result.states[1]
    /\ ~IsNone(result.final_ado_state)
    /\ Val(result.final_ado_state) \notin Range(result.ado_states)
    /\ call.op = "_store_state"

(***************************************************************************)
(* Resuming: the solver is constructed, _restore_state is called on a      *)
(* state vector, as the integrator hands it over, and the state it returns *)
(* is given to _prepare_state as the initial state of a next run.          *)
(***************************************************************************)
\* the state vectors of the given length: with different entries everywhere,
\* and with a first block of zeros
VectorPool(len) ==
    { [ j \in Idx(len) |-> << j + 1, a - j >> ] : a \in 0 .. 1 }
        \cup { [ j \in Idx(len) |-> IF j < len \div 2 THEN CZero ELSE << j, 1 >> ] }

\* _restore_state(v) of a state vector v
RestoreVector ==
    /\ phase = "ready"
    /\ call = NoCall
    /\ \E v \in VectorPool(sys_shape * sys_shape * Len(ados.labels)) :
        call' = [ op |-> "_restore_state", vec |-> v, ret |-> restore_state(Solver, v) ]
    /\ UNCHANGED << result, phase, sys_shape, L_sys, L_td, exponents, max_depth, ados,
                    cache, gatherer, rhs, ss >>

\* _prepare_state of the state that _restore_state returned, or of its array
PrepareRestored ==
    /\ call.op = "_restore_state"
    /\ \E kind \in { "HierarchyADOsState", "array" } :
       \E state \in { [ kind |-> kind, shape |-> HierarchyShape(Solver),
                        data |-> call.ret.ado_state ] } :
        call' = [ op |-> "_prepare_state", restored |-> call.vec, state |-> state,
                  ret |-> prepare_state(Solver, state) ]
    /\ UNCHANGED << result, phase, sys_shape, L_sys, L_td, exponents, max_depth, ados,
                    cache, gatherer, rhs, ss >>

NextResume == Construct \/ RestoreVector \/ PrepareRestored \/ Return

SpecResume == InitSS /\ [][NextResume]_vars

\* C25: _prepare_state of the state returned by _restore_state(v), or of the
\* array of that state, returns v, and the block of v at the index of a label
\* holds the entries of the ADO of that label, row by row.
C25_ResumeRoundTrip ==
    call.op = "_prepare_state" =>
        /\ call.ret.exc = ""
        /\ call.ret.vec = call.restored
        /\ \A L \in Range(ados.labels) : \A r, c \in Idx(sys_shape) :
              call.ret.vec[idx(ados, L).ret * sys_shape * sys_shape + r * sys_shape + c]
                  = call.state.data[<< idx(ados, L).ret, r, c >>]

\* a vector with different entries everywhere went through a hierarchy of
\* several ADOs of a 2 x 2 system, as the array of the restored state
C25_Witness ==
    /\ call.op = "_prepare_state"
    /\ call.state.kind = "array"
    /\ sys_shape = 2
    /\ Len(ados.labels) > 2
    /\ call.ret.exc = ""
    /\ \A i, j \in DOMAIN call.restored : i # j => call.restored[i] # call.restored[j]
    /\ call.ret.vec = call.restored

====
